---- MODULE Spec2Model ----
(***************************************************************************)
(* detect.py: the transaction graph (TxGraph), the twelve privacy          *)
(* detectors and main(), as a state machine.                               *)
(*                                                                         *)
(* Amounts are kept as integer satoshi: a BTC amount a of the source is    *)
(* represented by the integer int(round(a * 1e8)) the detectors compute    *)
(* from it.  Python's None is the record None.  A transaction input's      *)
(* sequence number (32 bits) is kept as the pair of its 16-bit halves.     *)
(***************************************************************************)
EXTENDS Integers, Sequences, FiniteSets, TLC

VARIABLES
    pc,           \* position of main(), or "api" for a client of a built TxGraph
    args,         \* the parsed command line
    descriptors,  \* result of resolve_descriptors
    addr_map,     \* result of derive_all_addresses
    node_wallets, \* wallets loaded in the node (collaborator state)
    scan_wallet,  \* the wallet the history is read from
    wallet_txs,   \* result of get_all_transactions
    utxos,        \* result of get_all_utxos
    g,            \* the TxGraph object (tx_cache included)
    chain,        \* what the node's getrawtransaction decodes, per txid
    plan,         \* per txid: how many decode calls fail before one succeeds
    fail_kind,    \* the exception a failing decode call raises in this run
    calls,        \* number of get_tx calls issued so far, per txid
    FINDINGS,     \* module-level list FINDINGS
    WARNINGS,     \* module-level list WARNINGS
    stdout,       \* the JSON documents printed so far
    iterated,     \* txids drawn so far from a "for txid in g.our_txids" loop
    run,          \* how many times the detector pipeline has been started
    first_run,    \* FINDINGS as it was when the first pipeline run ended
    last,         \* the last TxGraph call of an "api" client and its result
    api_calls,    \* number of TxGraph calls made by "api" clients
    threads       \* per thread of a concurrent client: its position in fetch_tx

vars == <<pc, args, descriptors, addr_map, node_wallets, scan_wallet, wallet_txs,
          utxos, g, chain, plan, fail_kind, calls, FINDINGS, WARNINGS,
          stdout, iterated, run, first_run, last, api_calls, threads>>

-----------------------------------------------------------------------------
(* Bounds of the model *)

\* a flaky txid fails at most this many decode calls before it succeeds
MaxFail == 1
\* calls an "api" client makes on a built graph
MaxApiCalls == 3

\* number of threads of a concurrent client of one TxGraph
MaxThreads == 2

-----------------------------------------------------------------------------
(* Python values *)

None == [none |-> TRUE]

\* "if x:" / "if not x:" on a decoded transaction or None
Truthy(x) == x # None

Always == 0 - 1

Min(a, b) == IF a <= b THEN a ELSE b

RECURSIVE SumSeq(_)
SumSeq(s) == IF s = <<>> THEN 0 ELSE Head(s) + SumSeq(Tail(s))

Range(s) == {s[i] : i \in 1..Len(s)}

IsPrefix(s, t) == Len(s) <= Len(t) /\ SubSeq(t, 1, Len(s)) = s

\* list(reversed(s))
Reverse(s) == [i \in 1..Len(s) |-> s[Len(s) + 1 - i]]

-----------------------------------------------------------------------------
(* The node's view of the chain: addresses and decoded transactions *)

\* owned candidates (derived from descriptors) and foreign addresses
AddrList == <<"bcrt1q_a1", "bcrt1q_a2", "bcrt1q_a3", "bcrt1q_c1", "m_l1",
              "bcrt1q_x1", "bcrt1p_x2", "2_x3", "m_x4">>

\* address.startswith(...) for the prefixes get_script_type looks at
StartsWith(address, prefixes) ==
    CASE address \in {"bcrt1q_a1", "bcrt1q_a2", "bcrt1q_a3", "bcrt1q_c1", "bcrt1q_x1"}
              -> "bcrt1q" \in prefixes
      [] address = "bcrt1p_x2" -> "bcrt1p" \in prefixes
      [] address = "2_x3" -> "2" \in prefixes
      [] OTHER -> FALSE

SEQ_FINAL == <<65535, 65535>>      \* 0xffffffff
SEQ_RBF == <<65535, 65533>>        \* 0xfffffffd
SEQ_NOLOCK == <<65535, 65534>>     \* 0xfffffffe

In(txid, vout, seq) == [coinbase |-> FALSE, txid |-> txid, vout |-> vout, sequence |-> seq]
Coinbase == [coinbase |-> TRUE, txid |-> "", vout |-> 0, sequence |-> SEQ_FINAL]
Out(n, address, value, type) ==
    [n |-> n, value |-> value, scriptPubKey |-> [address |-> address, type |-> type]]
Tx(vin, vout, locktime, vsize, confirmations) ==
    [vin |-> vin, vout |-> vout, version |-> 2, locktime |-> locktime,
     vsize |-> vsize, confirmations |-> confirmations]

\* every txid of the model, in the order sorted() gives
TxidList == <<"e1", "gA", "gB", "p1", "p2", "p3", "p4", "t1", "t3", "t4", "t5", "t6", "t7", "zz">>
Txids == Range(TxidList)

\* The regtest chain of the scenarios: two coinbase transactions, the
\* transactions funding the wallet, and the wallet's own spends.
ChainMain ==
    [t \in Txids \ {"zz"} |->
       CASE t = "gA" -> Tx(<<Coinbase>>,
                           <<Out(0, "bcrt1q_x1", 1000000, "witness_v0_keyhash"),
                             Out(1, "bcrt1q_x1", 1000000, "witness_v0_keyhash")>>, 0, 120, 200)
         [] t = "gB" -> Tx(<<Coinbase>>,
                           <<Out(0, "bcrt1q_x1", 1000000, "witness_v0_keyhash"),
                             Out(1, "bcrt1q_x1", 2000000, "witness_v0_keyhash")>>, 0, 120, 199)
         [] t = "p1" -> Tx(<<In("gA", 0, SEQ_RBF)>>,
                           <<Out(0, "bcrt1q_a1", 150000, "witness_v0_keyhash"),
                             Out(1, "bcrt1q_x1", 500000, "witness_v0_keyhash"),
                             Out(2, "bcrt1q_a3", 349000, "witness_v0_keyhash")>>, 150, 170, 150)
         [] t = "p2" -> Tx(<<In("gB", 0, SEQ_RBF)>>,
                           <<Out(0, "bcrt1q_a1", 20000, "witness_v0_keyhash"),
                             Out(1, "bcrt1q_a2", 546, "witness_v0_keyhash"),
                             Out(2, "bcrt1q_a2", 700, "witness_v0_keyhash"),
                             Out(3, "bcrt1q_x1", 978454, "witness_v0_keyhash")>>, 151, 200, 149)
         [] t = "p3" -> Tx(<<In("gA", 1, SEQ_RBF), In("p2", 3, SEQ_RBF)>>,
                           <<Out(0, "bcrt1q_a3", 200000, "witness_v0_keyhash"),
                             Out(1, "m_l1", 300000, "pubkeyhash"),
                             Out(2, "", 0, "nulldata")>>, 152, 180, 148)
         [] t = "p4" -> Tx(<<In("zz", 0, SEQ_FINAL)>>,
                           <<Out(0, "bcrt1q_x1", 100000, "witness_v0_keyhash")>>, 0, 110, 148)
         [] t = "e1" -> Tx(<<In("gB", 1, SEQ_FINAL)>>,
                           <<Out(0, "bcrt1q_a3", 60000, "witness_v0_keyhash"),
                             Out(1, "bcrt1q_x1", 50000, "witness_v0_keyhash"),
                             Out(2, "bcrt1p_x2", 50000, "witness_v1_taproot"),
                             Out(3, "2_x3", 50000, "scripthash"),
                             Out(4, "m_x4", 50000, "pubkeyhash"),
                             Out(5, "bcrt1q_a2", 546, "witness_v0_keyhash")>>, 0, 300, 130)
         [] t = "t1" -> Tx(<<In("p1", 0, SEQ_RBF), In("p2", 0, SEQ_RBF), In("p2", 1, SEQ_RBF)>>,
                           <<Out(0, "bcrt1p_x2", 100000, "witness_v1_taproot"),
                             Out(1, "bcrt1q_c1", 70246, "witness_v0_keyhash")>>, 160, 300, 120)
         [] t = "t3" -> Tx(<<In("p3", 0, SEQ_RBF), In("p3", 1, SEQ_RBF), In("p4", 0, SEQ_RBF)>>,
                           <<Out(0, "2_x3", 400000, "scripthash"),
                             Out(1, "bcrt1q_a2", 199400, "witness_v0_keyhash")>>, 161, 300, 15)
         [] t = "t4" -> Tx(<<In("e1", 0, SEQ_RBF)>>,
                           <<Out(0, "bcrt1q_x1", 58800, "witness_v0_keyhash"),
                             Out(1, "bcrt1q_a1", 1000, "witness_v0_keyhash")>>, 162, 100, 3)
         [] t = "t5" -> Tx(<<In("p1", 2, SEQ_RBF)>>,
                           <<Out(0, "bcrt1q_x1", 100000, "witness_v0_keyhash"),
                             Out(1, "bcrt1p_x2", 100000, "witness_v1_taproot"),
                             Out(2, "2_x3", 100000, "scripthash"),
                             Out(3, "bcrt1q_c1", 48300, "witness_v0_keyhash")>>, 163, 350, 5)
         [] t = "t6" -> Tx(<<In("t3", 1, SEQ_RBF)>>,
                           <<Out(0, "bcrt1q_x1", 150000, "witness_v0_keyhash"),
                             Out(1, "bcrt1q_c1", 49100, "witness_v0_keyhash")>>, 164, 150, 2)
         [] t = "t7" -> Tx(<<In("t1", 1, SEQ_RBF), In("t4", 1, SEQ_RBF), In("t5", 3, SEQ_RBF)>>,
                           <<Out(0, "bcrt1q_x1", 100000, "witness_v0_keyhash"),
                             Out(1, "bcrt1q_a3", 18946, "witness_v0_keyhash")>>, 165, 300, 1)]

Chains == {ChainMain}

-----------------------------------------------------------------------------
(* bitcoin_rpc.get_tx: the external decode call *)

\* whether the n-th get_tx call for txid raises
GetTxRaises(txid, n) ==
    \/ txid \notin DOMAIN chain
    \/ plan[txid] = Always
    \/ n <= plan[txid]

\* the sets of txids whose decode is faulty in a run
FaultySets ==
    {{}} \cup {{t} : t \in Txids \ {"zz"}}
         \cup {{"p1", "p3"}, {"t3", "p2"}, {"gA", "gB", "e1"}, Txids}

\* the decode plans of a run: which txids are faulty, and for how many calls
DecodePlans ==
    {[t \in Txids |-> IF t \in F THEN m ELSE 0] :
        F \in FaultySets, m \in {Always} \cup (1..MaxFail)}

FailKinds == {"RuntimeError", "TimeoutExpired"}

\* a handler that catches the node's error only ("except RuntimeError")
CatchesRuntimeErrorOnly(kind) == kind = "RuntimeError"

\* the classes fetch_tx's "except Exception" catches
IsException(kind) == kind \in {"RuntimeError", "TimeoutExpired"}

-----------------------------------------------------------------------------
(* TxGraph *)

\* Iteration order of a Python set (or dict) of strings.  The order is the
\* same every time one process iterates the same set; it is taken here to be
\* the order of the universe list.
IterSeq(S, universe) ==
    LET member(x) == x \in S
    IN  SelectSeq(universe, member)

Put(f, k, v) == [x \in DOMAIN f \cup {k} |-> IF x = k THEN v ELSE f[x]]

\* records of wallet_txs that TxGraph.__init__ indexes under address addr
RecordsOf(txs, addr) ==
    LET keep(w) == w.address # "" /\ w.txid # "" /\ w.address = addr
    IN  SelectSeq(txs, keep)

\* a constructor without the "if txid" test of line 187
TxGraphInitNoTxidTest(amap, txs, utx) ==
    [addr_map  |-> amap,
     our_addrs |-> DOMAIN amap,
     utxos     |-> utx,
     tx_cache  |-> [t \in {} |-> None],
     our_txids |-> {txs[i].txid : i \in 1..Len(txs)},
     addr_txs  |-> [a \in {txs[i].address : i \in {j \in 1..Len(txs) :
                                txs[j].address # "" /\ txs[j].txid # ""}}
                     |-> RecordsOf(txs, a)],
     tx_addrs  |-> [t \in {txs[i].txid : i \in {j \in 1..Len(txs) :
                                txs[j].address # "" /\ txs[j].txid # ""}}
                     |-> {txs[i].address : i \in {j \in 1..Len(txs) :
                                txs[j].txid = t /\ txs[j].address # ""}}]]

\* TxGraph.__init__
TxGraphInit(amap, txs, utx) ==
    [addr_map  |-> amap,
     our_addrs |-> DOMAIN amap,
     utxos     |-> utx,
     tx_cache  |-> [t \in {} |-> None],
     our_txids |-> {txs[i].txid : i \in {j \in 1..Len(txs) : txs[j].txid # ""}},
     addr_txs  |-> [a \in {txs[i].address : i \in {j \in 1..Len(txs) :
                                txs[j].address # "" /\ txs[j].txid # ""}}
                     |-> RecordsOf(txs, a)],
     tx_addrs  |-> [t \in {txs[i].txid : i \in {j \in 1..Len(txs) :
                                txs[j].address # "" /\ txs[j].txid # ""}}
                     |-> {txs[i].address : i \in {j \in 1..Len(txs) :
                                txs[j].txid = t /\ txs[j].address # ""}}]]

\* The state a call made from main() can touch: the graph's cache, the count
\* of external decode calls, the two module-level lists, the txids iterated,
\* and whether an exception is propagating.
St(cache, cnt, fnd, wrn, it) ==
    [cache |-> cache, calls |-> cnt, raised |-> FALSE,
     findings |-> fnd, warnings |-> wrn, iterated |-> it]

\* an exception raised at this point of the code
Raise(st) == [st EXCEPT !.raised = TRUE]

\* TxGraph.fetch_tx: a failing decode that handles the exception
FetchMiss(st, txid) ==
    IF IsException(fail_kind)
    THEN [st |-> st, res |-> None]
    ELSE [st |-> Raise(st), res |-> None]

\* a fetch_tx whose cache keeps the last decoded transaction only
FetchTxEvicting(st, txid) ==
    IF st.raised THEN [st |-> st, res |-> None]
    ELSE IF txid \in DOMAIN st.cache THEN [st |-> st, res |-> st.cache[txid]]
    ELSE LET n == st.calls[txid] + 1
             st1 == [st EXCEPT !.calls[txid] = n]
         IN  IF GetTxRaises(txid, n)
             THEN FetchMiss(st1, txid)
             ELSE [st |-> [st1 EXCEPT !.cache = [t \in {txid} |-> chain[txid]]],
                   res |-> chain[txid]]

\* TxGraph.fetch_tx
FetchTx(st, txid) ==
    IF st.raised THEN [st |-> st, res |-> None]
    ELSE IF txid \in DOMAIN st.cache THEN [st |-> st, res |-> st.cache[txid]]
    ELSE LET n == st.calls[txid] + 1
             st1 == [st EXCEPT !.calls[txid] = n]
         IN  IF GetTxRaises(txid, n)
             THEN FetchMiss(st1, txid)
             ELSE [st |-> [st1 EXCEPT !.cache = Put(@, txid, chain[txid])],
                   res |-> chain[txid]]

\* an entry that reads the first output of the parent, whatever the input spends
InputEntryOfFirstOutput(parent, vin) ==
    [address |-> parent.vout[1].scriptPubKey.address,
     value   |-> parent.vout[1].value,
     txid    |-> vin.txid,
     vout    |-> vin.vout]

\* one entry of get_input_addresses's result
InputEntry(parent, vin) ==
    LET vout_data == parent.vout[vin.vout + 1]
    IN  [address |-> vout_data.scriptPubKey.address,
         value   |-> vout_data.value,
         txid    |-> vin.txid,
         vout    |-> vin.vout]

\* the loop of get_input_addresses over tx["vin"], from entry i on
RECURSIVE ResolveInputs(_, _, _, _)
ResolveInputs(st, vins, i, addrs) ==
    IF i > Len(vins) \/ st.raised THEN [st |-> st, res |-> addrs]
    ELSE IF vins[i].coinbase THEN ResolveInputs(st, vins, i + 1, addrs)
    ELSE LET f == FetchTx(st, vins[i].txid)
         IN  IF ~Truthy(f.res) THEN ResolveInputs(f.st, vins, i + 1, addrs)
             ELSE IF vins[i].vout + 1 > Len(f.res.vout)
                  THEN [st |-> Raise(f.st), res |-> addrs]
                  ELSE ResolveInputs(f.st, vins, i + 1,
                                     Append(addrs, InputEntry(f.res, vins[i])))

\* a get_input_addresses without the "if not tx" test: tx.get on None raises
GetInputAddressesUnguarded(st, txid) ==
    LET f == FetchTx(st, txid)
    IN  IF ~Truthy(f.res) THEN [st |-> Raise(f.st), res |-> <<>>]
        ELSE ResolveInputs(f.st, f.res.vin, 1, <<>>)

\* TxGraph.get_input_addresses
GetInputAddresses(st, txid) ==
    LET f == FetchTx(st, txid)
    IN  IF ~Truthy(f.res) THEN [st |-> f.st, res |-> <<>>]
        ELSE ResolveInputs(f.st, f.res.vin, 1, <<>>)

\* TxGraph.get_output_addresses
GetOutputAddresses(st, txid) ==
    LET f == FetchTx(st, txid)
    IN  IF ~Truthy(f.res) THEN [st |-> f.st, res |-> <<>>]
        ELSE [st |-> f.st,
              res |-> [i \in 1..Len(f.res.vout) |->
                         [address |-> f.res.vout[i].scriptPubKey.address,
                          value   |-> f.res.vout[i].value,
                          n       |-> f.res.vout[i].n,
                          type    |-> f.res.vout[i].scriptPubKey.type]]]

\* TxGraph.is_ours
IsOurs(address) == address \in g.our_addrs

\* TxGraph.get_script_type
GetScriptType(address) ==
    IF address \in DOMAIN g.addr_map THEN g.addr_map[address].type
    ELSE IF StartsWith(address, {"tb1q", "bc1q", "bcrt1q"}) THEN "p2wpkh"
    ELSE IF StartsWith(address, {"tb1p", "bc1p", "bcrt1p"}) THEN "p2tr"
    ELSE IF StartsWith(address, {"2", "3"}) THEN "p2sh-p2wpkh"
    ELSE "unknown"

-----------------------------------------------------------------------------
(* Collaborator results: wallet history and unspent outputs *)

W(txid, address, category, amount, confirmations) ==
    [txid |-> txid, address |-> address, category |-> category,
     amount |-> amount, confirmations |-> confirmations]

U(txid, vout, address, amount, confirmations) ==
    [txid |-> txid, vout |-> vout, address |-> address,
     amount |-> amount, confirmations |-> confirmations]

HistFull ==
    <<W("p1", "bcrt1q_a1", "receive", 150000, 150),
      W("p1", "bcrt1q_a3", "receive", 349000, 150),
      W("t5", "bcrt1q_x1", "send", 100000, 5),
      W("p2", "bcrt1q_a1", "receive", 20000, 149),
      W("p2", "bcrt1q_a2", "receive", 546, 149),
      W("p2", "bcrt1q_a2", "receive", 700, 149),
      W("p3", "bcrt1q_a3", "receive", 200000, 148),
      W("p3", "m_l1", "receive", 300000, 148),
      W("e1", "bcrt1q_a3", "receive", 60000, 130),
      W("e1", "bcrt1q_a2", "receive", 546, 130),
      W("t1", "bcrt1p_x2", "send", 100000, 120),
      W("t3", "2_x3", "send", 400000, 15),
      W("t3", "bcrt1q_a2", "receive", 199400, 15),
      W("t4", "bcrt1q_x1", "send", 58800, 3),
      W("", "bcrt1q_a3", "receive", 1, 0),
      W("t4", "", "send", 0, 3)>>

HistSmall ==
    <<W("p1", "bcrt1q_a1", "receive", 150000, 150),
      W("p2", "bcrt1q_a2", "receive", 546, 149),
      W("p2", "bcrt1q_a2", "receive", 700, 149),
      W("t3", "bcrt1q_a2", "send", 199400, 15),
      W("p2", "bcrt1q_a1", "receive", 20000, 149),
      W("t1", "bcrt1p_x2", "send", 100000, 120),
      W("p2", "bcrt1q_x1", "receive", 978454, 149),
      W("e1", "bcrt1q_x1", "receive", 50000, 130)>>

HistSends ==
    <<W("t1", "bcrt1p_x2", "send", 100000, 120),
      W("t3", "2_x3", "send", 400000, 15),
      W("t4", "bcrt1q_x1", "send", 58800, 3)>>

\* three sends of one input each
HistSingles ==
    <<W("t4", "bcrt1q_x1", "send", 58800, 3),
      W("t5", "bcrt1q_x1", "send", 100000, 5),
      W("t6", "bcrt1q_x1", "send", 150000, 2)>>

\* three sends of three inputs each
HistTriples ==
    <<W("t1", "bcrt1p_x2", "send", 100000, 120),
      W("t3", "2_x3", "send", 400000, 15),
      W("t7", "bcrt1q_x1", "send", 100000, 1)>>

\* five sends of two outputs each
HistFive ==
    <<W("t1", "bcrt1p_x2", "send", 100000, 120),
      W("t3", "2_x3", "send", 400000, 15),
      W("t4", "bcrt1q_x1", "send", 58800, 3),
      W("t6", "bcrt1q_x1", "send", 150000, 2),
      W("t7", "bcrt1q_x1", "send", 100000, 1)>>

\* what listtransactions can return for the scanned wallet
Histories == {HistFull, HistSmall, HistSends, HistSingles, HistTriples, HistFive, <<>>}

UtxoFull ==
    <<U("t1", 1, "bcrt1q_c1", 70246, 120),
      U("t3", 1, "bcrt1q_a2", 199400, 15),
      U("t4", 1, "bcrt1q_a1", 1000, 3),
      U("t5", 3, "bcrt1q_c1", 48300, 5),
      U("p2", 2, "bcrt1q_a2", 700, 149),
      U("e1", 5, "bcrt1q_a2", 546, 130),
      U("gA", 1, "bcrt1q_x1", 1000000, 200)>>

UtxoRecent ==
    <<U("t3", 1, "bcrt1q_a2", 199400, 9),
      U("t4", 1, "bcrt1q_a1", 1000, 3),
      U("t5", 3, "bcrt1q_c1", 48300, 5)>>

UtxoMixed ==
    <<U("e1", 5, "bcrt1q_a2", 546, 130),
      U("t1", 1, "bcrt1q_c1", 70246, 120)>>

\* what listunspent can return for the scanned wallet
UtxoSets == {UtxoFull, UtxoRecent, UtxoMixed, <<>>}

-----------------------------------------------------------------------------
(* Helpers of the detectors *)

\* "for x in seq: body", stopping when an exception propagates
ForEach(Body(_, _), st, seq) ==
    LET F[i \in 0..Len(seq)] ==
            IF i = 0 THEN st
            ELSE LET prev == F[i - 1]
                 IN  IF prev.raised THEN prev ELSE Body(prev, seq[i])
    IN  F[Len(seq)]

\* a finding() that inserts at the head of the list (FINDINGS.insert(0, msg))
FindingFirst(st, msg) == [st EXCEPT !.findings = <<msg>> \o @]

\* finding(msg)
Finding(st, msg) == [st EXCEPT !.findings = Append(@, msg)]

\* a warn() that appends to FINDINGS
WarnAsFinding(st, msg) == Finding(st, msg)

\* warn(msg)
Warn(st, msg) == [st EXCEPT !.warnings = Append(@, msg)]

\* a txid drawn from "for txid in g.our_txids"
Visit(st, txid) == [st EXCEPT !.iterated = @ \cup {txid}]

\* "change" if g.addr_map.get(address, {}).get("internal") else "receive"
Role(address) ==
    IF address \in DOMAIN g.addr_map /\ g.addr_map[address].internal
    THEN "change" ELSE "receive"

\* round(a / b) of Python 3 for integers a >= 0, b > 0 (ties to even)
RoundDiv(a, b) ==
    LET q == a \div b
        r == a % b
    IN  IF 2 * r < b THEN q
        ELSE IF 2 * r > b THEN q + 1
        ELSE IF q % 2 = 0 THEN q ELSE q + 1

OursOf(entries) == LET ours(e) == IsOurs(e.address) IN SelectSeq(entries, ours)
NotOursOf(entries) == LET ext(e) == ~IsOurs(e.address) IN SelectSeq(entries, ext)

-----------------------------------------------------------------------------
(* detect_01_address_reuse *)

\* receive_txids of one address
ReceiveTxids(addr) ==
    IF addr \in DOMAIN g.addr_txs
    THEN {g.addr_txs[addr][i].txid :
            i \in {j \in 1..Len(g.addr_txs[addr]) :
                     g.addr_txs[addr][j].category = "receive"}}
    ELSE {}

\* a count of the receive records (a list in place of the set receive_txids)
IsReusedByRecords(addr) ==
    /\ addr \in DOMAIN g.addr_txs
    /\ Len(SelectSeq(g.addr_txs[addr], LAMBDA e : e.category = "receive")) >= 2

\* "if len(receive_txids) >= 2"
IsReused(addr) == Cardinality(ReceiveTxids(addr)) >= 2

\* tx.get("confirmations", 0) if tx else 0
ConfirmationsOrZero(tx) == IF Truthy(tx) THEN tx.confirmations ELSE 0

\* the body of "for addr, txids in reused.items()"
D01Report(st, addr) ==
    LET txids == IterSeq(ReceiveTxids(addr), TxidList)
        entry(acc, txid) ==
            LET f == FetchTx(acc.st, txid)
            IN  [st |-> f.st,
                 res |-> Append(acc.res, [txid |-> txid,
                                          confirmations |-> ConfirmationsOrZero(f.res)])]
        L[i \in 0..Len(txids)] ==
            IF i = 0 THEN [st |-> st, res |-> <<>>] ELSE entry(L[i - 1], txids[i])
        l == L[Len(txids)]
    IN  Finding(l.st,
                [type |-> "ADDRESS_REUSE", severity |-> "HIGH",
                 details |-> [address |-> addr, role |-> Role(addr),
                              tx_count |-> Len(txids), txids |-> l.res]])

Detect01(st) ==
    ForEach(D01Report, st, SelectSeq(IterSeq(g.our_addrs, AddrList), IsReused))

-----------------------------------------------------------------------------
(* detect_02_cioh *)

\* severity = "CRITICAL" if n_ours == total_inputs else "HIGH"
CiohSeverity(n_ours, total_inputs) ==
    IF n_ours = total_inputs THEN "CRITICAL" ELSE "HIGH"

\* the body of "for txid in g.our_txids"
D02Tx(st0, txid) ==
    LET f == FetchTx(Visit(st0, txid), txid)
    IN  IF ~Truthy(f.res) THEN f.st
        ELSE IF Len(f.res.vin) < 2 THEN f.st
        ELSE LET ia == GetInputAddresses(f.st, txid)
                 input_addrs == ia.res
                 our_inputs == OursOf(input_addrs)
                 ext_inputs == NotOursOf(input_addrs)
                 total_inputs == Len(input_addrs)
                 n_ours == Len(our_inputs)
             IN  IF ia.st.raised \/ total_inputs < 2 \/ n_ours < 2 THEN ia.st
                 ELSE Finding(ia.st,
                        [type |-> "CIOH",
                         severity |-> CiohSeverity(n_ours, total_inputs),
                         details |->
                           [txid |-> txid,
                            total_inputs |-> total_inputs,
                            our_inputs |-> n_ours,
                            external_inputs |-> Len(ext_inputs),
                            ownership_pct |-> RoundDiv(n_ours * 100, total_inputs),
                            our_addresses |->
                              [i \in 1..n_ours |->
                                 [address |-> our_inputs[i].address,
                                  role |-> Role(our_inputs[i].address),
                                  amount_btc |-> our_inputs[i].value]]]])

Detect02(st) == ForEach(D02Tx, st, IterSeq(g.our_txids, TxidList))

-----------------------------------------------------------------------------
(* detect_03_dust *)

DUST_SATS == 1000
STRICT_DUST == 546

\* found: the owned UTXOs of at most DUST_SATS
DustUtxos ==
    LET dust(u) == u.amount <= DUST_SATS /\ IsOurs(u.address)
    IN  SelectSeq(g.utxos, dust)

\* the body of "for txid in g.our_txids": the dust outputs of one transaction
D03Hist(acc, txid) ==
    LET o == GetOutputAddresses(Visit(acc.st, txid), txid)
        dust(out) == out.value <= DUST_SATS /\ IsOurs(out.address)
        hits == SelectSeq(o.res, dust)
    IN  [st |-> o.st,
         raised |-> o.st.raised,
         res |-> acc.res \o [i \in 1..Len(hits) |->
                               [txid |-> txid, address |-> hits[i].address,
                                sats |-> hits[i].value]]]

\* "Deduplicate historical": the first entry of each (txid, address)
UniqueHist(hist_dust) ==
    LET first(i) == \A j \in 1..(i - 1) :
                       <<hist_dust[j].txid, hist_dust[j].address>>
                         # <<hist_dust[i].txid, hist_dust[i].address>>
        idx == {i \in 1..Len(hist_dust) : first(i)}
        F[i \in 0..Len(hist_dust)] ==
            IF i = 0 THEN <<>>
            ELSE IF i \in idx THEN Append(F[i - 1], hist_dust[i]) ELSE F[i - 1]
    IN  F[Len(hist_dust)]

\* a historical loop without the current_keys test
NeverCurrent(found, h) == TRUE

\* "if (h["txid"], h["address"]) not in current_keys"
NotCurrent(found, h) ==
    <<h.txid, h.address>> \notin {<<found[i].txid, found[i].address>> : i \in 1..Len(found)}

D03Unspent(st, u) ==
    LET label == IF u.amount <= STRICT_DUST THEN "STRICT_DUST" ELSE "dust-class"
    IN  Finding(st, [type |-> "DUST",
                     severity |-> IF label = "STRICT_DUST" THEN "HIGH" ELSE "MEDIUM",
                     details |-> [status |-> "unspent", address |-> u.address,
                                  sats |-> u.amount, label |-> label,
                                  txid |-> u.txid, vout |-> u.vout]])

D03Spent(st, h) ==
    Finding(st, [type |-> "DUST", severity |-> "LOW",
                 details |-> [status |-> "spent", address |-> h.address,
                              sats |-> h.sats, txid |-> h.txid]])

Detect03(st) ==
    LET found == DustUtxos
        hist == ForEach(D03Hist, [st |-> st, raised |-> FALSE, res |-> <<>>],
                        IterSeq(g.our_txids, TxidList))
        hist_dust == hist.res
        st1 == ForEach(D03Unspent, hist.st, found)
        keep(h) == NotCurrent(found, h)
    IN  IF hist.st.raised THEN hist.st
        ELSE IF found = <<>> /\ hist_dust = <<>> THEN hist.st
        ELSE ForEach(D03Spent, st1, SelectSeq(UniqueHist(hist_dust), keep))

-----------------------------------------------------------------------------
(* detect_04_dust_spending *)

NORMAL_SATS == 10000

\* the body of "for txid in g.our_txids"
D04Tx(st0, txid) ==
    LET ia == GetInputAddresses(Visit(st0, txid), txid)
        input_addrs == ia.res
        dust(e) == IsOurs(e.address) /\ e.value <= DUST_SATS
        normal(e) == IsOurs(e.address) /\ e.value > DUST_SATS /\ e.value > NORMAL_SATS
        dust_inputs == SelectSeq(input_addrs, dust)
        normal_inputs == SelectSeq(input_addrs, normal)
    IN  IF ia.st.raised \/ Len(input_addrs) < 2 THEN ia.st
        ELSE IF dust_inputs = <<>> \/ normal_inputs = <<>> THEN ia.st
        ELSE Finding(ia.st,
               [type |-> "DUST_SPENDING", severity |-> "HIGH",
                details |->
                  [txid |-> txid,
                   dust_inputs |-> [i \in 1..Len(dust_inputs) |->
                                      [address |-> dust_inputs[i].address,
                                       sats |-> dust_inputs[i].value]],
                   normal_inputs |-> [i \in 1..Len(normal_inputs) |->
                                        [address |-> normal_inputs[i].address,
                                         amount_btc |-> normal_inputs[i].value]]]])

Detect04(st) == ForEach(D04Tx, st, IterSeq(g.our_txids, TxidList))

-----------------------------------------------------------------------------
(* detect_05_change_detection *)

ROUND_SATS == 100000
ROUND_SATS_BIG == 1000000
MAX_REASONS == 6

\* a test that lets every transaction pass for a send
AnyTxIsSend(our_in) == TRUE

\* "if not our_in: continue": only sends, with an input of ours, are looked at
IsSend(our_in) == our_in # <<>>

\* sats % 100000 == 0 or sats % 1000000 == 0
IsRound(sats) == sats % ROUND_SATS = 0 \/ sats % ROUND_SATS_BIG = 0

Reason(kind, pay_sats, ch_sats, ch_type, pay_type) ==
    [reason |-> kind, pay_sats |-> pay_sats, ch_sats |-> ch_sats,
     ch_type |-> ch_type, pay_type |-> pay_type]

\* the reasons one (change, payment) pair adds to problems
PairProblems(our_in, change, payment) ==
    LET in_types == {GetScriptType(our_in[i].address) : i \in 1..Len(our_in)}
        ch_type == GetScriptType(change.address)
        h1 == IF IsRound(payment.value) /\ ~IsRound(change.value)
              THEN <<Reason("round_payment", payment.value, change.value, "", "")>>
              ELSE <<>>
        h2 == IF ch_type \in in_types /\ change.type # payment.type
              THEN <<Reason("script_type", 0, 0, change.type, payment.type)>>
              ELSE <<>>
        h3 == IF change.address \in DOMAIN g.addr_map /\ g.addr_map[change.address].internal
              THEN <<Reason("internal_path", 0, 0, "", "")>>
              ELSE <<>>
    IN  h1 \o h2 \o h3

\* problems: the nested loops over our_outs and ext_outs
ChangeProblems(our_in, our_outs, ext_outs) ==
    LET Inner(change) ==
            LET P[j \in 0..Len(ext_outs)] ==
                    IF j = 0 THEN <<>>
                    ELSE P[j - 1] \o PairProblems(our_in, change, ext_outs[j])
            IN  P[Len(ext_outs)]
        C[i \in 0..Len(our_outs)] ==
            IF i = 0 THEN <<>> ELSE C[i - 1] \o Inner(our_outs[i])
    IN  C[Len(our_outs)]

\* the body of "for txid in g.our_txids"
D05Tx(st0, txid) ==
    LET f == FetchTx(Visit(st0, txid), txid)
    IN  IF ~Truthy(f.res) THEN f.st
        ELSE LET o == GetOutputAddresses(f.st, txid)
                 ia == GetInputAddresses(o.st, txid)
                 outputs == o.res
                 our_in == OursOf(ia.res)
                 our_outs == OursOf(outputs)
                 ext_outs == NotOursOf(outputs)
                 problems == ChangeProblems(our_in, our_outs, ext_outs)
             IN  IF ia.st.raised \/ Len(outputs) < 2 THEN ia.st
                 ELSE IF ~IsSend(our_in) THEN ia.st
                 ELSE IF our_outs = <<>> \/ ext_outs = <<>> THEN ia.st
                 ELSE IF problems = <<>> THEN ia.st
                 ELSE Finding(ia.st,
                        [type |-> "CHANGE_DETECTION", severity |-> "MEDIUM",
                         details |->
                           [txid |-> txid,
                            matched |-> Len(problems),   \* the count the description quotes
                            reasons |-> SubSeq(problems, 1, Min(Len(problems), MAX_REASONS)),
                            change_outputs |->
                              [i \in 1..Len(our_outs) |->
                                 [address |-> our_outs[i].address,
                                  amount_btc |-> our_outs[i].value]]]])

Detect05(st) == ForEach(D05Tx, st, IterSeq(g.our_txids, TxidList))

-----------------------------------------------------------------------------
(* detect_06_consolidation_origin *)

CONSOLIDATION_THRESHOLD == 3
CONSOLIDATION_MAX_OUT == 2

\* the body of "for utxo in g.utxos"
D06Utxo(st0, utxo) ==
    IF ~IsOurs(utxo.address) THEN st0
    ELSE LET f == FetchTx(st0, utxo.txid)
         IN  IF ~Truthy(f.res) THEN f.st
             ELSE LET n_in == Len(f.res.vin)
                      n_out == Len(f.res.vout)
                      pi == GetInputAddresses(f.st, utxo.txid)
                  IN  IF ~(n_in >= CONSOLIDATION_THRESHOLD /\ n_out <= CONSOLIDATION_MAX_OUT)
                      THEN f.st
                      ELSE IF pi.st.raised THEN pi.st
                      ELSE Finding(pi.st,
                             [type |-> "CONSOLIDATION", severity |-> "MEDIUM",
                              details |->
                                [txid |-> utxo.txid, vout |-> utxo.vout,
                                 amount_btc |-> utxo.amount,
                                 consolidation_inputs |-> n_in,
                                 consolidation_outputs |-> n_out,
                                 our_inputs_in_consolidation |-> Len(OursOf(pi.res))]])

Detect06(st) == ForEach(D06Utxo, st, g.utxos)

-----------------------------------------------------------------------------
(* detect_07_script_type_mixing *)

\* the script types, in the order sorted() gives
TypeList == <<"p2pkh", "p2sh-p2wpkh", "p2tr", "p2wpkh", "unknown">>

\* the body of "for txid in g.our_txids"
D07Tx(st0, txid) ==
    LET ia == GetInputAddresses(Visit(st0, txid), txid)
        input_addrs == ia.res
        our_in == OursOf(input_addrs)
        types == {GetScriptType(input_addrs[i].address) : i \in 1..Len(input_addrs)}
                   \ {"unknown"}
    IN  IF ia.st.raised \/ Len(input_addrs) < 2 THEN ia.st
        ELSE IF Len(our_in) < 2 THEN ia.st
        ELSE IF Cardinality(types) < 2 THEN ia.st
        ELSE Finding(ia.st,
               [type |-> "SCRIPT_TYPE_MIXING", severity |-> "HIGH",
                details |->
                  [txid |-> txid,
                   script_types |-> IterSeq(types, TypeList),
                   inputs |-> [i \in 1..Len(input_addrs) |->
                                 [address |-> input_addrs[i].address,
                                  script_type |-> GetScriptType(input_addrs[i].address),
                                  ours |-> IsOurs(input_addrs[i].address)]]]])

Detect07(st) == ForEach(D07Tx, st, IterSeq(g.our_txids, TxidList))

-----------------------------------------------------------------------------
(* detect_08_cluster_merge *)

\* the txids whose first 16 hexadecimal characters are the same
SamePrefix == {"e1", "p1"}

\* a txid kept whole
WholeTxid(txid) == txid

\* txid[:16]: the first 16 of the 64 characters of a txid; the txids of
\* SamePrefix have one prefix, every other txid has a prefix of its own
Prefix16(txid) == IF txid \in SamePrefix THEN "e1p1" ELSE txid

\* gp_sources of one parent transaction
GpSources(parent_tx) ==
    {IF parent_tx.vin[i].coinbase THEN "coinbase" ELSE Prefix16(parent_tx.vin[i].txid) :
        i \in 1..Len(parent_tx.vin)}

\* funding_sources[key] = value: a repeated key keeps its place
DictSet(d, key, value) ==
    IF \E i \in 1..Len(d) : d[i].key = key
    THEN [i \in 1..Len(d) |-> IF d[i].key = key THEN [key |-> key, sources |-> value] ELSE d[i]]
    ELSE Append(d, [key |-> key, sources |-> value])

\* the body of "for ia in our_in"
D08Trace(acc, ia) ==
    LET f == FetchTx(acc.st, ia.txid)
    IN  IF ~Truthy(f.res) THEN [st |-> f.st, raised |-> f.st.raised, res |-> acc.res]
        ELSE [st |-> f.st, raised |-> f.st.raised,
              res |-> DictSet(acc.res, <<Prefix16(ia.txid), ia.vout>>, GpSources(f.res))]

\* merged_clusters: some pair of source sets is disjoint
MergedClusters(all_sources) ==
    \E i \in 1..Len(all_sources) : \E j \in (i + 1)..Len(all_sources) :
        all_sources[i].sources \cap all_sources[j].sources = {}

\* the body of "for txid in g.our_txids"
D08Tx(st0, txid) ==
    LET ia == GetInputAddresses(Visit(st0, txid), txid)
        our_in == OursOf(ia.res)
        tr == ForEach(D08Trace, [st |-> ia.st, raised |-> FALSE, res |-> <<>>], our_in)
        funding_sources == tr.res
    IN  IF ia.st.raised \/ Len(ia.res) < 2 THEN ia.st
        ELSE IF Len(our_in) < 2 THEN ia.st
        ELSE IF tr.st.raised THEN tr.st
        ELSE IF Len(funding_sources) >= 2 /\ MergedClusters(funding_sources)
        THEN Finding(tr.st,
               [type |-> "CLUSTER_MERGE", severity |-> "HIGH",
                details |-> [txid |-> txid, funding_sources |-> funding_sources]])
        ELSE tr.st

Detect08(st) == ForEach(D08Tx, st, IterSeq(g.our_txids, TxidList))

-----------------------------------------------------------------------------
(* detect_09_lookback_depth *)

SPREAD_BLOCKS == 10
OLD_THRESHOLD == 100

\* aged.sort(key=confirmations, reverse=True)[0]: the first of the oldest
Oldest(aged) ==
    aged[CHOOSE i \in 1..Len(aged) :
           /\ \A j \in 1..Len(aged) : aged[j].confirmations <= aged[i].confirmations
           /\ \A j \in 1..(i - 1) : aged[j].confirmations < aged[i].confirmations]

\* aged.sort(key=confirmations, reverse=True)[-1]: the last of the newest
Newest(aged) ==
    aged[CHOOSE i \in 1..Len(aged) :
           /\ \A j \in 1..Len(aged) : aged[j].confirmations >= aged[i].confirmations
           /\ \A j \in (i + 1)..Len(aged) : aged[j].confirmations > aged[i].confirmations]

Detect09(st) ==
    LET our_utxos == OursOf(g.utxos)
        oldest == Oldest(our_utxos)
        newest == Newest(our_utxos)
        spread == oldest.confirmations - newest.confirmations
        old(u) == u.confirmations >= OLD_THRESHOLD
        old_utxos == SelectSeq(our_utxos, old)
        st1 == Finding(st,
                 [type |-> "UTXO_AGE_SPREAD", severity |-> "LOW",
                  details |->
                    [spread_blocks |-> spread,
                     oldest |-> [txid |-> oldest.txid,
                                 confirmations |-> oldest.confirmations,
                                 amount_btc |-> oldest.amount],
                     newest |-> [txid |-> newest.txid,
                                 confirmations |-> newest.confirmations,
                                 amount_btc |-> newest.amount]]])
    IN  IF g.utxos = <<>> THEN st
        ELSE IF our_utxos = <<>> THEN st
        ELSE IF Len(our_utxos) < 2 THEN st
        ELSE IF spread < SPREAD_BLOCKS THEN st
        ELSE IF old_utxos # <<>>
        THEN Warn(st1, [type |-> "DORMANT_UTXOS", severity |-> "LOW",
                        details |-> [count |-> Len(old_utxos),
                                     threshold_blocks |-> OLD_THRESHOLD]])
        ELSE st1

-----------------------------------------------------------------------------
(* detect_10_exchange_origin *)

BATCH_THRESHOLD == 5
MIN_SIGNALS == 2
RATIO_LIMIT == 10

\* what listtransactions returns for a labelled wallet
LabelledHistory(wallet) ==
    IF wallet = "exchange" THEN <<W("e1", "bcrt1q_a3", "send", 60000, 130),
                                  W("", "bcrt1q_x1", "receive", 1, 0)>>
    ELSE IF wallet = "risky" THEN <<W("p2", "bcrt1q_a1", "send", 20000, 149),
                                    W("e1", "bcrt1q_x1", "receive", 50000, 130)>>
    ELSE <<>>

\* the txid set built from the labelled wallets; a wallet the node has not
\* loaded makes cli raise, and the wallet is skipped
LabelledTxids(wallets) ==
    UNION {{LabelledHistory(wallets[i])[j].txid :
              j \in {k \in 1..Len(LabelledHistory(wallets[i])) :
                       LabelledHistory(wallets[i])[k].txid # ""}} :
           i \in {k \in 1..Len(wallets) : wallets[k] \in node_wallets}}

\* sorted(values)[len(values) // 2]
MedianValue(vouts) ==
    LET vals == {<<vouts[i].value, i>> : i \in 1..Len(vouts)}
        below(p) == Cardinality({q \in vals : q[1] < p[1] \/ (q[1] = p[1] /\ q[2] < p[2])})
    IN  (CHOOSE p \in vals : below(p) = Len(vouts) \div 2)[1]

Signal(kind, n) == [signal |-> kind, n |-> n]

\* the body of "for txid in g.our_txids"
D10Tx(exchange_txids, st0, txid) ==
    LET f == FetchTx(Visit(st0, txid), txid)
    IN  IF ~Truthy(f.res) THEN f.st
        ELSE IF Len(f.res.vout) < BATCH_THRESHOLD THEN f.st
        ELSE LET tx == f.res
                 n_out == Len(tx.vout)
                 ia == GetInputAddresses(f.st, txid)
                 o == GetOutputAddresses(ia.st, txid)
                 our_inputs == OursOf(ia.res)
                 our_outputs == OursOf(o.res)
                 unique_addrs == {tx.vout[i].scriptPubKey.address : i \in 1..n_out} \ {""}
                 ia2 == GetInputAddresses(o.st, txid)
                 input_total == SumSeq([i \in 1..Len(ia2.res) |-> ia2.res[i].value])
                 median_out == MedianValue(tx.vout)
                 signals ==
                     <<Signal("output_count", n_out)>>
                     \o (IF Cardinality(unique_addrs) >= BATCH_THRESHOLD
                         THEN <<Signal("unique_addresses", Cardinality(unique_addrs))>>
                         ELSE <<>>)
                     \o (IF txid \in exchange_txids
                         THEN <<Signal("known_exchange", 0)>> ELSE <<>>)
                     \o (IF median_out > 0 /\ input_total > RATIO_LIMIT * median_out
                         THEN <<Signal("input_ratio", RoundDiv(input_total, median_out))>>
                         ELSE <<>>)
             IN  IF o.st.raised THEN o.st
                 ELSE IF our_inputs # <<>> THEN o.st
                 ELSE IF our_outputs = <<>> THEN o.st
                 ELSE IF ia2.st.raised THEN ia2.st
                 ELSE IF Len(signals) >= MIN_SIGNALS
                 THEN Finding(ia2.st,
                        [type |-> "EXCHANGE_ORIGIN", severity |-> "MEDIUM",
                         details |->
                           [txid |-> txid, signals |-> signals,
                            received_outputs |->
                              [i \in 1..Len(our_outputs) |->
                                 [address |-> our_outputs[i].address,
                                  amount_btc |-> our_outputs[i].value]]]])
                 ELSE ia2.st

Detect10(st, known_exchange_wallets) ==
    LET exchange_txids == IF known_exchange_wallets.given
                          THEN LabelledTxids(known_exchange_wallets.names) ELSE {}
        body(s, txid) == D10Tx(exchange_txids, s, txid)
    IN  ForEach(body, st, IterSeq(g.our_txids, TxidList))

-----------------------------------------------------------------------------
(* detect_11_tainted_utxos *)

\* the body of the first "for txid in g.our_txids"
D11Merge(risky_txids, st0, txid) ==
    LET ia == GetInputAddresses(Visit(st0, txid), txid)
        input_addrs == ia.res
        our_in == OursOf(input_addrs)
        is_tainted(e) == e.txid \in risky_txids
        is_clean(e) == e.txid \notin risky_txids
        tainted == SelectSeq(input_addrs, is_tainted)
        clean == SelectSeq(input_addrs, is_clean)
    IN  IF ia.st.raised \/ our_in = <<>> \/ Len(input_addrs) < 2 THEN ia.st
        ELSE IF tainted = <<>> \/ clean = <<>> THEN ia.st
        ELSE Finding(ia.st,
               [type |-> "TAINTED_UTXO_MERGE", severity |-> "HIGH",
                details |->
                  [txid |-> txid,
                   tainted_inputs |-> [i \in 1..Len(tainted) |->
                                         [address |-> tainted[i].address,
                                          amount_btc |-> tainted[i].value,
                                          source_txid |-> tainted[i].txid]],
                   clean_inputs |-> [i \in 1..Len(clean) |->
                                       [address |-> clean[i].address,
                                        amount_btc |-> clean[i].value]],
                   taint_pct |-> RoundDiv(Len(tainted) * 100, Len(input_addrs))]])

\* the body of the second "for txid in g.our_txids"
D11Direct(risky_txids, st0, txid) ==
    IF txid \notin risky_txids THEN Visit(st0, txid)
    ELSE LET o == GetOutputAddresses(Visit(st0, txid), txid)
             our_outs == OursOf(o.res)
         IN  IF o.st.raised \/ our_outs = <<>> THEN o.st
             ELSE Warn(o.st,
                    [type |-> "DIRECT_TAINT", severity |-> "HIGH",
                     details |->
                       [txid |-> txid,
                        received_outputs |->
                          [i \in 1..Len(our_outs) |->
                             [address |-> our_outs[i].address,
                              amount_btc |-> our_outs[i].value]]]])

Detect11(st, known_risky_wallets) ==
    LET risky_txids == LabelledTxids(known_risky_wallets.names)
        merge(s, txid) == D11Merge(risky_txids, s, txid)
        direct(s, txid) == D11Direct(risky_txids, s, txid)
        order == IterSeq(g.our_txids, TxidList)
    IN  IF ~known_risky_wallets.given \/ known_risky_wallets.names = <<>> THEN st
        ELSE IF risky_txids = {} THEN st
        ELSE ForEach(direct, ForEach(merge, st, order), order)

-----------------------------------------------------------------------------
(* detect_12_behavioral_fingerprint *)

MIN_SENDS == 3
ROUND_PCT == 60

\* seq < 0xfffffffe, on the 16-bit halves of seq
SignalsRbf(seq) == seq[1] < SEQ_NOLOCK[1] \/ (seq[1] = SEQ_NOLOCK[1] /\ seq[2] < SEQ_NOLOCK[2])

\* the body of the first loop: send_txids collects the txids with an owned input
D12Collect(acc, txid) ==
    LET ia == GetInputAddresses(Visit(acc.st, txid), txid)
    IN  [st |-> ia.st, raised |-> ia.st.raised,
         res |-> IF OursOf(ia.res) # <<>> THEN Append(acc.res, txid) ELSE acc.res]

NoFeatures(st) ==
    [st |-> st, raised |-> FALSE,
     output_counts |-> <<>>, n_inputs_list |-> <<>>, locktime_values |-> <<>>,
     rbf_signals |-> <<>>, input_script_types |-> <<>>,
     change_address_types_used |-> {}, payment_address_types_used |-> {},
     total_payments |-> 0, uses_round_amounts |-> 0, fee_rates |-> <<>>]

\* the body of "for txid in send_txids": feature extraction
D12Features(acc, txid) ==
    LET f == FetchTx(acc.st, txid)
        tx == f.res
        ia == GetInputAddresses(f.st, txid)
        o == GetOutputAddresses(ia.st, txid)
        our_in == OursOf(ia.res)
        change == OursOf(o.res)
        payment == NotOursOf(o.res)
        round(out) == out.value > 0 /\ IsRound(out.value)
        ia2 == GetInputAddresses(o.st, txid)
        in_total == SumSeq([i \in 1..Len(ia2.res) |-> ia2.res[i].value])
        out_total == SumSeq([i \in 1..Len(tx.vout) |-> tx.vout[i].value])
        fee_sats == in_total - out_total
    IN  IF ~Truthy(tx) THEN [acc EXCEPT !.st = f.st, !.raised = f.st.raised]
        ELSE [st |-> IF tx.vsize > 0 THEN ia2.st ELSE o.st,
              raised |-> IF tx.vsize > 0 THEN ia2.st.raised ELSE o.st.raised,
              output_counts |-> Append(acc.output_counts, Len(tx.vout)),
              n_inputs_list |-> Append(acc.n_inputs_list, Len(tx.vin)),
              locktime_values |-> Append(acc.locktime_values, tx.locktime),
              rbf_signals |-> acc.rbf_signals
                                \o [i \in 1..Len(tx.vin) |-> SignalsRbf(tx.vin[i].sequence)],
              input_script_types |-> acc.input_script_types
                                \o [i \in 1..Len(our_in) |-> GetScriptType(our_in[i].address)],
              change_address_types_used |-> acc.change_address_types_used
                                \cup {change[i].type : i \in 1..Len(change)},
              payment_address_types_used |-> acc.payment_address_types_used
                                \cup {payment[i].type : i \in 1..Len(payment)},
              total_payments |-> acc.total_payments + Len(payment),
              uses_round_amounts |-> acc.uses_round_amounts + Len(SelectSeq(payment, round)),
              fee_rates |-> IF tx.vsize > 0 /\ fee_sats > 0
                            THEN Append(acc.fee_rates, [fee_sats |-> fee_sats, vsize |-> tx.vsize])
                            ELSE acc.fee_rates]

RECURSIVE Gcd(_, _)
Gcd(a, b) == IF b = 0 THEN a ELSE Gcd(b, a % b)

RECURSIVE LcmOfVsizes(_)
LcmOfVsizes(rates) ==
    IF rates = <<>> THEN 1
    ELSE LET l == LcmOfVsizes(Tail(rates))
         IN  (l \div Gcd(l, Head(rates).vsize)) * Head(rates).vsize

RECURSIVE GcdOfSeq(_)
GcdOfSeq(s) == IF s = <<>> THEN 0 ELSE Gcd(Head(s), GcdOfSeq(Tail(s)))

\* cv = stddev / avg < 0.15 over the rates fee_sats / vsize, in integers:
\* with R the rates scaled by a common multiple, S their sum and n their
\* number, cv < 0.15 iff 400 * sum((n*R - S)^2) < 9 * n * S^2; the ratio does
\* not change when the rates are divided by a common factor
ConsistentFeeRate(rates) ==
    LET n == Len(rates)
        l == LcmOfVsizes(rates)
        R0 == [i \in 1..n |-> rates[i].fee_sats * (l \div rates[i].vsize)]
        d == GcdOfSeq(R0)
        R == [i \in 1..n |-> R0[i] \div d]
        S == SumSeq(R)
    IN  /\ S > 0
        /\ 400 * SumSeq([i \in 1..n |-> (n * R[i] - S) * (n * R[i] - S)]) < 9 * n * S * S

Pattern(name, value) == [pattern |-> name, value |-> value]

\* a test that passes any non-empty list of output counts
AnyOutputCounts(oc) == oc # <<>>

\* check 2: "all(c == output_counts[0] ...) and len(output_counts) >= 3"
UniformOutputCount(oc) ==
    oc # <<>> /\ (\A i \in 1..Len(oc) : oc[i] = oc[1]) /\ Len(oc) >= MIN_SENDS

\* check 7: both sets non-empty and "change_address_types_used != payment_address_types_used"
ChangeTypeDiffers(change_types, payment_types) ==
    change_types # {} /\ payment_types # {} /\ change_types # payment_types

\* a test that takes a constant count of 1 for a pattern too
ConstantInputCountFromOne(nl) ==
    Len(nl) >= MIN_SENDS /\ (\A i \in 1..Len(nl) : nl[i] = nl[1]) /\ nl[1] >= 1

\* check 8: at least 3 counts, not all 1, all equal and above 1
ConstantInputCount(nl) ==
    /\ nl # <<>> /\ Len(nl) >= MIN_SENDS
    /\ ~(\A i \in 1..Len(nl) : nl[i] = 1)
    /\ (\A i \in 1..Len(nl) : nl[i] = nl[1]) /\ nl[1] > 1

\* problems: the eight checks of the analysis, in order
Patterns(ft) ==
    LET oc == ft.output_counts
        its == Range(ft.input_script_types)
        rbf_on == Len(SelectSeq(ft.rbf_signals, LAMBDA b : b))
        lt == ft.locktime_values
        nonzero_lt == SelectSeq(lt, LAMBDA v : v > 0)
        nl == ft.n_inputs_list
    IN  (IF ft.total_payments > 0
            /\ ft.uses_round_amounts * 100 > ROUND_PCT * ft.total_payments
         THEN <<Pattern("round_amounts", RoundDiv(ft.uses_round_amounts * 100, ft.total_payments))>>
         ELSE <<>>)
     \o (IF UniformOutputCount(oc)
         THEN <<Pattern("uniform_output_count", oc[1])>> ELSE <<>>)
     \o (IF Cardinality(its) > 1 THEN <<Pattern("mixed_input_types", Cardinality(its))>>
         ELSE IF its = {"p2pkh"} THEN <<Pattern("legacy_inputs", 1)>>
         ELSE <<>>)
     \o (IF ft.rbf_signals = <<>> THEN <<>>
         ELSE IF rbf_on = Len(ft.rbf_signals) THEN <<Pattern("rbf_always", 100)>>
         ELSE IF rbf_on = 0 THEN <<Pattern("rbf_never", 0)>>
         ELSE <<>>)
     \o (IF lt = <<>> THEN <<>>
         ELSE IF Len(nonzero_lt) = Len(lt) /\ Len(lt) >= MIN_SENDS
              THEN <<Pattern("locktime_always", Len(lt))>>
         ELSE IF nonzero_lt = <<>> /\ Len(lt) >= MIN_SENDS
              THEN <<Pattern("locktime_zero", Len(lt))>>
         ELSE <<>>)
     \o (IF Len(ft.fee_rates) >= MIN_SENDS /\ ConsistentFeeRate(ft.fee_rates)
         THEN <<Pattern("consistent_fee_rate", Len(ft.fee_rates))>> ELSE <<>>)
     \o (IF ChangeTypeDiffers(ft.change_address_types_used, ft.payment_address_types_used)
         THEN <<Pattern("change_type_differs", 0)>> ELSE <<>>)
     \o (IF ConstantInputCount(nl)
         THEN <<Pattern("constant_input_count", nl[1])>> ELSE <<>>)

Detect12(st) ==
    LET sends == ForEach(D12Collect, [st |-> st, raised |-> FALSE, res |-> <<>>],
                         IterSeq(g.our_txids, TxidList))
        send_txids == sends.res
        ft == ForEach(D12Features, NoFeatures(sends.st), send_txids)
        problems == Patterns(ft)
    IN  IF sends.st.raised THEN sends.st
        ELSE IF Len(send_txids) < MIN_SENDS THEN sends.st
        ELSE IF ft.st.raised THEN ft.st
        ELSE IF problems = <<>> THEN ft.st
        ELSE Finding(ft.st,
               [type |-> "BEHAVIORAL_FINGERPRINT", severity |-> "MEDIUM",
                details |-> [send_tx_count |-> Len(send_txids),
                             patterns |-> problems]])

-----------------------------------------------------------------------------
(* Descriptors.  A descriptor string is kept as the sequence of its tokens, *)
(* so that split("#"), the "/0/*" and "/1/*" tests and replace() act on it. *)

W0 == <<"wpkh(", "[fp/84h/1h/0h]tpubA", "/0/*", ")">>
P0 == <<"pkh(", "[fp/44h/1h/0h]tpubB", "/0/*", ")">>
TR == <<"tr(", "cPrivC", ")">>
M2 == <<"wsh(multi(2,", "tpubD", "/0/*", ",", "tpubE", "/1/*", "))">>

\* raw.split("#")[0]
StripChecksum(raw) ==
    LET hashes == {i \in 1..Len(raw) : raw[i] = "#"}
    IN  IF hashes = {} THEN raw
        ELSE SubSeq(raw, 1, (CHOOSE i \in hashes : \A j \in hashes : i <= j) - 1)

\* marker in base
Contains(base, marker) == \E i \in 1..Len(base) : base[i] = marker

\* base.replace(old, new)
Replace(base, old, new) == [i \in 1..Len(base) |-> IF base[i] = old THEN new ELSE base[i]]

\* candidates without the "elif": only the external marker is mirrored
CandidatesExternalMarkerOnly(raw) ==
    LET base == StripChecksum(raw)
    IN  IF Contains(base, "/0/*")
        THEN <<[desc |-> base, internal |-> FALSE],
               [desc |-> Replace(base, "/0/*", "/1/*"), internal |-> TRUE]>>
        ELSE <<[desc |-> base, internal |-> FALSE]>>

\* the candidates of one raw descriptor
Candidates(raw) ==
    LET base == StripChecksum(raw)
    IN  IF Contains(base, "/0/*")
        THEN <<[desc |-> base, internal |-> FALSE],
               [desc |-> Replace(base, "/0/*", "/1/*"), internal |-> TRUE]>>
        ELSE IF Contains(base, "/1/*")
        THEN <<[desc |-> Replace(base, "/1/*", "/0/*"), internal |-> FALSE],
               [desc |-> base, internal |-> TRUE]>>
        ELSE <<[desc |-> base, internal |-> FALSE]>>

\* cli("getdescriptorinfo", desc)["descriptor"]: the descriptor with its checksum
DescriptorInfo(desc) == desc \o <<"#", "chk">>

\* the "else" branch of resolve_descriptors; getdescriptorinfo fails for the
\* descriptors of info_bad
ResolveRaw(raws, info_bad) ==
    LET spec(c) == [desc |-> IF c.desc \in info_bad THEN c.desc ELSE DescriptorInfo(c.desc),
                    internal |-> c.internal, active |-> TRUE, range_end |-> 999]
        one(raw) == [i \in 1..Len(Candidates(raw)) |-> spec(Candidates(raw)[i])]
        F[i \in 0..Len(raws)] == IF i = 0 THEN <<>> ELSE F[i - 1] \o one(raws[i])
    IN  F[Len(raws)]

\* an entry of the node's listdescriptors result
Listed(desc, internal, range) == [desc |-> desc, internal |-> internal, range |-> range]

\* the "if args.wallet" branch of resolve_descriptors, for a listing
ResolveWallet(listing) ==
    [i \in 1..Len(listing) |->
       [desc |-> listing[i].desc,
        internal |-> listing[i].internal,
        active |-> TRUE,
        range_end |-> IF listing[i].range.kind = "list" THEN listing[i].range.hi
                      ELSE IF listing[i].range.kind = "int" THEN listing[i].range.hi
                      ELSE 999]]

RangeList(lo, hi) == [kind |-> "list", lo |-> lo, hi |-> hi]
RangeInt(hi) == [kind |-> "int", lo |-> 0, hi |-> hi]
NoRange == [kind |-> "absent", lo |-> 0, hi |-> 0]

\* what listdescriptors can return for a loaded wallet
Listings ==
    {<<Listed(DescriptorInfo(W0), FALSE, RangeList(0, 999)),
       Listed(DescriptorInfo(Replace(W0, "/0/*", "/1/*")), TRUE, RangeList(0, 999))>>,
     <<Listed(DescriptorInfo(W0), FALSE, RangeList(0, 1)),
       Listed(DescriptorInfo(P0), FALSE, RangeInt(1000)),
       Listed(DescriptorInfo(TR), FALSE, NoRange)>>,
     <<>>}

\* the addresses the node derives from a descriptor (deriveaddresses)
DeriveTable(desc) ==
    LET base == StripChecksum(desc)
    IN  IF base = W0 THEN <<"bcrt1q_a1", "bcrt1q_a2", "bcrt1q_a3">>
        ELSE IF base = Replace(W0, "/0/*", "/1/*") THEN <<"bcrt1q_c1">>
        ELSE IF base = P0 THEN <<"m_l1">>
        ELSE <<>>

\* desc.startswith(...) chain of derive_all_addresses
DescType(desc) ==
    IF Head(desc) = "wpkh(" THEN "p2wpkh"
    ELSE IF Head(desc) = "tr(" THEN "p2tr"
    ELSE IF Head(desc) = "sh(wpkh(" THEN "p2sh-p2wpkh"
    ELSE IF Head(desc) = "pkh(" THEN "p2pkh"
    ELSE "unknown"

\* derive_all_addresses; deriveaddresses raises for the descriptors of bad
DeriveAllAddresses(descs, bad) ==
    LET one(amap, dinfo) ==
            LET rng == Min(dinfo.range_end, 999)
                all == DeriveTable(dinfo.desc)
                addrs == SubSeq(all, 1, Min(Len(all), rng + 1))
                A[i \in 0..Len(addrs)] ==
                    IF i = 0 THEN amap
                    ELSE Put(A[i - 1], addrs[i],
                             [type |-> DescType(dinfo.desc),
                              internal |-> dinfo.internal,
                              index |-> i - 1])
            IN  IF dinfo.desc \in bad THEN amap ELSE A[Len(addrs)]
        F[i \in 0..Len(descs)] ==
            IF i = 0 THEN [a \in {} |-> None] ELSE one(F[i - 1], descs[i])
    IN  F[Len(descs)]

-----------------------------------------------------------------------------
(* main() *)

Opt(given, names) == [given |-> given, names |-> names]

Args(wallet, descs, risky, exchange, keep) ==
    [wallet |-> wallet, descriptors |-> descs, known_risky_wallets |-> risky,
     known_exchange_wallets |-> exchange, keep_scan_wallet |-> keep]

\* the command lines of the model
ArgChoices ==
    {Args("alice", <<>>, Opt(TRUE, <<"risky">>), Opt(TRUE, <<"exchange">>), FALSE),
     Args("alice", <<>>, Opt(FALSE, <<>>), Opt(FALSE, <<>>), FALSE),
     Args("", <<DescriptorInfo(W0)>>, Opt(FALSE, <<>>), Opt(FALSE, <<>>), FALSE),
     Args("", <<Replace(W0, "/0/*", "/1/*"), P0>>, Opt(TRUE, <<"risky">>), Opt(TRUE, <<>>), TRUE),
     Args("", <<TR>>, Opt(FALSE, <<>>), Opt(FALSE, <<>>), FALSE),
     Args("", <<M2, DescriptorInfo(W0)>>, Opt(FALSE, <<>>), Opt(FALSE, <<>>), FALSE),
     Args("", <<>>, Opt(TRUE, <<"risky">>), Opt(FALSE, <<>>), FALSE),
     Args("", <<>>, Opt(FALSE, <<>>), Opt(FALSE, <<>>), TRUE)}

NoCalls == [t \in Txids |-> 0]
NoFailures == [t \in Txids |-> 0]
NoLast == [op |-> "", txid |-> "", res |-> None, raised |-> FALSE, failed |-> FALSE]

\* the threads of a concurrent client of the graph, none of them in fetch_tx
Threads == 1..MaxThreads
NoThreads == [th \in Threads |-> [pc |-> "idle", txid |-> "", n |-> 0, res |-> None]]

ErrorDoc == [error |-> "No transactions found for these descriptors."]

\* the report main() prints
ReportDoc ==
    [stats |-> [transactions_analyzed |-> Cardinality(g.our_txids),
                addresses_derived |-> Cardinality(DOMAIN addr_map)],
     findings |-> FINDINGS,
     warnings |-> WARNINGS,
     summary |-> [findings |-> Len(FINDINGS),
                  warnings |-> Len(WARNINGS),
                  clean |-> Len(FINDINGS) = 0 /\ Len(WARNINGS) = 0]]

\* the state main() starts in
Init ==
    /\ pc = "start"
    /\ args \in ArgChoices
    /\ descriptors = <<>>
    /\ addr_map = <<>>
    /\ node_wallets \in {{"alice", "risky", "exchange"}, {"risky", "_detect_scan"}}
    /\ scan_wallet = ""
    /\ wallet_txs = <<>>
    /\ utxos = <<>>
    /\ g = None
    /\ chain \in Chains
    /\ plan = NoFailures
    /\ fail_kind = "RuntimeError"
    /\ calls = NoCalls
    /\ FINDINGS = <<>>
    /\ WARNINGS = <<>>
    /\ stdout = <<>>
    /\ iterated = {}
    /\ run = 0
    /\ first_run = <<>>
    /\ last = NoLast
    /\ api_calls = 0
    /\ threads = NoThreads

\* main, lines 1106-1109: parse_args and the usage check
ParseArgs ==
    /\ pc = "start"
    /\ pc' = IF args.wallet = "" /\ args.descriptors = <<>> THEN "usage_error" ELSE "resolve"
    /\ UNCHANGED <<args, descriptors, addr_map, node_wallets, scan_wallet, wallet_txs,
                   utxos, g, chain, plan, fail_kind, calls, FINDINGS, WARNINGS,
                   stdout, iterated, run, first_run, last, api_calls, threads>>

\* getdescriptorinfo can fail for none, the first or all of the candidates
InfoBadChoices(raws) ==
    LET cands == UNION {{Candidates(raws[i])[j].desc : j \in 1..Len(Candidates(raws[i]))} :
                          i \in 1..Len(raws)}
    IN  {{}, cands, {Candidates(raws[1])[1].desc}}

\* main, step 1: resolve_descriptors
ResolveDescriptors ==
    /\ pc = "resolve"
    /\ IF args.wallet # ""
       THEN \/ /\ args.wallet \in node_wallets
               /\ \E listing \in Listings : descriptors' = ResolveWallet(listing)
               /\ pc' = "derive"
            \/ \* cli("listdescriptors") raises: the exception leaves main
               /\ descriptors' = descriptors
               /\ pc' = "aborted"
       ELSE /\ \E bad \in InfoBadChoices(args.descriptors) :
                 descriptors' = ResolveRaw(args.descriptors, bad)
            /\ pc' = "derive"
    /\ UNCHANGED <<args, addr_map, node_wallets, scan_wallet, wallet_txs,
                   utxos, g, chain, plan, fail_kind, calls, FINDINGS, WARNINGS,
                   stdout, iterated, run, first_run, last, api_calls, threads>>

\* main, step 2: derive_all_addresses; deriveaddresses can fail for one descriptor
DeriveAddresses ==
    /\ pc = "derive"
    /\ \E bad \in {{}} \cup {{descriptors[i].desc} : i \in 1..Len(descriptors)} :
          addr_map' = DeriveAllAddresses(descriptors, bad)
    /\ pc' = "scan"
    /\ UNCHANGED <<args, descriptors, node_wallets, scan_wallet, wallet_txs,
                   utxos, g, chain, plan, fail_kind, calls, FINDINGS, WARNINGS,
                   stdout, iterated, run, first_run, last, api_calls, threads>>

\* build_scan_wallet: unloadwallet, createwallet (else loadwallet), importdescriptors
BuildScanWallet ==
    \E loaded \in BOOLEAN, imported \in BOOLEAN :
       /\ node_wallets' = IF loaded THEN node_wallets \cup {"_detect_scan"}
                          ELSE node_wallets \ {"_detect_scan"}
       /\ imported => loaded
       /\ IF imported
          THEN scan_wallet' = "_detect_scan" /\ pc' = "load"
          ELSE \* cli("importdescriptors") raises: the exception leaves main
               scan_wallet' = scan_wallet /\ pc' = "aborted"

\* main, step 3: the wallet the history is read from
ChooseScanWallet ==
    /\ pc = "scan"
    /\ IF args.wallet # ""
       THEN scan_wallet' = args.wallet /\ pc' = "load" /\ node_wallets' = node_wallets
       ELSE BuildScanWallet
    /\ UNCHANGED <<args, descriptors, addr_map, wallet_txs,
                   utxos, g, chain, plan, fail_kind, calls, FINDINGS, WARNINGS,
                   stdout, iterated, run, first_run, last, api_calls, threads>>

\* main, step 4: get_all_transactions, get_all_utxos and the "No transactions" exit
LoadHistory ==
    /\ pc = "load"
    /\ \/ /\ scan_wallet \in node_wallets
          /\ \E txs \in Histories, utx \in UtxoSets :
               /\ wallet_txs' = txs
               /\ utxos' = utx
               /\ IF txs = <<>>
                  THEN stdout' = Append(stdout, ErrorDoc) /\ pc' = "done"
                  ELSE stdout' = stdout /\ pc' = "graph"
       \/ \* cli("listtransactions") or cli("listunspent") raises
          /\ pc' = "aborted"
          /\ UNCHANGED <<wallet_txs, utxos, stdout>>
    /\ UNCHANGED <<args, descriptors, addr_map, node_wallets, scan_wallet,
                   g, chain, plan, fail_kind, calls, FINDINGS, WARNINGS,
                   iterated, run, first_run, last, api_calls, threads>>

\* the decode behaviour of the node while main() runs
MainDecodeEnvs ==
    {<<NoFailures, "RuntimeError">>, <<[t \in Txids |-> Always], "TimeoutExpired">>,
     <<[t \in Txids |-> IF t \in {"p2", "gA"} THEN Always ELSE 0], "RuntimeError">>}

\* main, step 5: g = TxGraph(addr_map, wallet_txs, utxos)
BuildGraph ==
    /\ pc = "graph"
    /\ g' = TxGraphInit(addr_map, wallet_txs, utxos)
    /\ \E env \in MainDecodeEnvs : plan' = env[1] /\ fail_kind' = env[2]
    /\ run' = 1
    /\ pc' = "d1"
    /\ UNCHANGED <<args, descriptors, addr_map, node_wallets, scan_wallet, wallet_txs,
                   utxos, chain, calls, FINDINGS, WARNINGS,
                   stdout, iterated, first_run, last, api_calls, threads>>

\* one detector call of main, step 6
RunDetector(here, r, next) ==
    /\ pc = here
    /\ g' = [g EXCEPT !.tx_cache = r.cache]
    /\ calls' = r.calls
    /\ FINDINGS' = r.findings
    /\ WARNINGS' = r.warnings
    /\ iterated' = r.iterated
    /\ pc' = IF r.raised THEN "aborted" ELSE next
    /\ UNCHANGED <<args, descriptors, addr_map, node_wallets, scan_wallet, wallet_txs,
                   utxos, chain, plan, fail_kind, stdout, run, first_run, last, api_calls, threads>>

Now == St(g.tx_cache, calls, FINDINGS, WARNINGS, iterated)

Detect_01 == RunDetector("d1", Detect01(Now), "d2")
Detect_02 == RunDetector("d2", Detect02(Now), "d3")
Detect_03 == RunDetector("d3", Detect03(Now), "d4")
Detect_04 == RunDetector("d4", Detect04(Now), "d5")
Detect_05 == RunDetector("d5", Detect05(Now), "d6")
Detect_06 == RunDetector("d6", Detect06(Now), "d7")
Detect_07 == RunDetector("d7", Detect07(Now), "d8")
Detect_08 == RunDetector("d8", Detect08(Now), "d9")
Detect_09 == RunDetector("d9", Detect09(Now), "d10")
Detect_10 == RunDetector("d10", Detect10(Now, args.known_exchange_wallets), "d11")
Detect_11 == RunDetector("d11", Detect11(Now, args.known_risky_wallets), "d12")
Detect_12 == RunDetector("d12", Detect12(Now), "report")

\* main: print(json.dumps(report))
Report ==
    /\ pc = "report"
    /\ stdout' = Append(stdout, ReportDoc)
    /\ pc' = "cleanup"
    /\ UNCHANGED <<args, descriptors, addr_map, node_wallets, scan_wallet, wallet_txs,
                   utxos, g, chain, plan, fail_kind, calls, FINDINGS, WARNINGS,
                   iterated, run, first_run, last, api_calls, threads>>

\* main: the cleanup of the temporary scan wallet
Cleanup ==
    /\ pc = "cleanup"
    /\ IF args.wallet = "" /\ ~args.keep_scan_wallet
       THEN \/ node_wallets' = node_wallets \ {"_detect_scan"}
            \/ \* cli("unloadwallet") raises and the exception is swallowed
               node_wallets' = node_wallets
       ELSE node_wallets' = node_wallets
    /\ pc' = "done"
    /\ UNCHANGED <<args, descriptors, addr_map, scan_wallet, wallet_txs,
                   utxos, g, chain, plan, fail_kind, calls, FINDINGS, WARNINGS,
                   stdout, iterated, run, first_run, last, api_calls, threads>>

Detectors ==
    \/ Detect_01 \/ Detect_02 \/ Detect_03 \/ Detect_04
    \/ Detect_05 \/ Detect_06 \/ Detect_07 \/ Detect_08
    \/ Detect_09 \/ Detect_10 \/ Detect_11 \/ Detect_12

Next ==
    \/ ParseArgs
    \/ ResolveDescriptors
    \/ DeriveAddresses
    \/ ChooseScanWallet
    \/ LoadHistory
    \/ BuildGraph
    \/ Detectors
    \/ Report
    \/ Cleanup

\* one invocation of detect.py
Spec == Init /\ [][Next]_vars

-----------------------------------------------------------------------------
(* The detector pipeline on its own: main() from step 6 on, started in the *)
(* states step 5 can produce, under every decode plan.                    *)

\* the addresses step 2 derives for the command line a
DescriptorsFor(a, listing) ==
    IF a.wallet # "" THEN ResolveWallet(listing) ELSE ResolveRaw(a.descriptors, {})

\* the state right after g = TxGraph(addr_map, wallet_txs, utxos)
InitDetect ==
    /\ pc = "d1"
    /\ args \in {a \in ArgChoices : a.wallet # "" \/ a.descriptors # <<>>}
    /\ \E listing \in Listings \ {<<>>} : descriptors = DescriptorsFor(args, listing)
    /\ addr_map = DeriveAllAddresses(descriptors, {})
    /\ node_wallets = {"alice", "risky", "exchange"}
                        \cup (IF args.wallet = "" THEN {"_detect_scan"} ELSE {})
    /\ scan_wallet = IF args.wallet = "" THEN "_detect_scan" ELSE args.wallet
    /\ wallet_txs \in Histories \ {<<>>}
    /\ utxos \in UtxoSets
    /\ g = TxGraphInit(addr_map, wallet_txs, utxos)
    /\ chain \in Chains
    /\ plan \in DecodePlans
    /\ fail_kind \in FailKinds
    /\ calls = NoCalls
    /\ FINDINGS = <<>>
    /\ WARNINGS = <<>>
    /\ stdout = <<>>
    /\ iterated = {}
    /\ run = 1
    /\ first_run = <<>>
    /\ last = NoLast
    /\ api_calls = 0
    /\ threads = NoThreads

NextDetect ==
    \/ Detectors
    \/ Report
    \/ Cleanup

SpecDetect == InitDetect /\ [][NextDetect]_vars

-----------------------------------------------------------------------------
(* The pipeline run a second time in the same process on the same TxGraph: *)
(* the six lines 1159-1170 of main() executed again.                       *)

Rerun ==
    /\ pc = "report"
    /\ run = 1
    /\ first_run' = FINDINGS
    /\ run' = 2
    /\ pc' = "d1"
    /\ UNCHANGED <<args, descriptors, addr_map, node_wallets, scan_wallet, wallet_txs,
                   utxos, g, chain, plan, fail_kind, calls, FINDINGS, WARNINGS,
                   stdout, iterated, last, api_calls, threads>>

NextRerun ==
    \/ Detectors
    \/ Rerun
    \/ Report
    \/ Cleanup

SpecRerun == InitDetect /\ [][NextRerun]_vars

-----------------------------------------------------------------------------
(* A client of the TxGraph methods: any sequence of fetch_tx,             *)
(* get_input_addresses and get_output_addresses calls on one graph.       *)

InitGraph ==
    /\ pc = "api"
    /\ args = Args("alice", <<>>, Opt(FALSE, <<>>), Opt(FALSE, <<>>), FALSE)
    /\ descriptors = ResolveWallet(CHOOSE l \in Listings : Len(l) = 2)
    /\ addr_map = DeriveAllAddresses(descriptors, {})
    /\ node_wallets = {"alice", "risky", "exchange"}
    /\ scan_wallet = "alice"
    /\ wallet_txs = HistFull
    /\ utxos = UtxoFull
    /\ g = TxGraphInit(addr_map, wallet_txs, utxos)
    /\ chain \in Chains
    /\ plan \in DecodePlans
    /\ fail_kind \in FailKinds
    /\ calls = NoCalls
    /\ FINDINGS = <<>>
    /\ WARNINGS = <<>>
    /\ stdout = <<>>
    /\ iterated = {}
    /\ run = 1
    /\ first_run = <<>>
    /\ last = NoLast
    /\ api_calls = 0
    /\ threads = NoThreads

\* the txids the client asks for: a coinbase, parents, a parent whose own
\* parent is unknown to the node, a spend of three outputs, an unknown txid
ApiTxids == {"gA", "p1", "p2", "p4", "t1", "zz"}

\* one call of a TxGraph method by the client; r is what the method returns
ApiCall(op, txid, r) ==
    /\ pc = "api"
    /\ api_calls < MaxApiCalls
    /\ api_calls' = api_calls + 1
    /\ g' = [g EXCEPT !.tx_cache = r.st.cache]
    /\ calls' = r.st.calls
    /\ last' = [op |-> op, txid |-> txid,
                res |-> IF r.st.raised THEN None ELSE r.res,
                raised |-> r.st.raised,
                failed |-> r.st.calls[txid] > calls[txid] /\ txid \notin DOMAIN r.st.cache]
    /\ UNCHANGED <<pc, args, descriptors, addr_map, node_wallets, scan_wallet, wallet_txs,
                   utxos, chain, plan, fail_kind, FINDINGS, WARNINGS,
                   stdout, iterated, run, first_run, threads>>

ApiFetchTx == \E txid \in ApiTxids : ApiCall("fetch_tx", txid, FetchTx(Now, txid))

ApiGetInputAddresses ==
    \E txid \in ApiTxids : ApiCall("get_input_addresses", txid, GetInputAddresses(Now, txid))

ApiGetOutputAddresses ==
    \E txid \in ApiTxids : ApiCall("get_output_addresses", txid, GetOutputAddresses(Now, txid))

NextGraph ==
    \/ ApiFetchTx
    \/ ApiGetInputAddresses
    \/ ApiGetOutputAddresses

SpecGraph == InitGraph /\ [][NextGraph]_vars

-----------------------------------------------------------------------------
(* Concurrent clients of one TxGraph: threads calling fetch_tx, each thread *)
(* taking the statements of fetch_tx one at a time.  get_tx runs a          *)
(* subprocess, during which other threads run.                              *)

InitConcurrent ==
    /\ pc = "threads"
    /\ args = Args("alice", <<>>, Opt(FALSE, <<>>), Opt(FALSE, <<>>), FALSE)
    /\ descriptors = ResolveWallet(CHOOSE l \in Listings : Len(l) = 2)
    /\ addr_map = DeriveAllAddresses(descriptors, {})
    /\ node_wallets = {"alice", "risky", "exchange"}
    /\ scan_wallet = "alice"
    /\ wallet_txs = HistFull
    /\ utxos = UtxoFull
    /\ g = TxGraphInit(addr_map, wallet_txs, utxos)
    /\ chain \in Chains
    /\ plan \in DecodePlans
    /\ fail_kind \in FailKinds
    /\ calls = NoCalls
    /\ FINDINGS = <<>>
    /\ WARNINGS = <<>>
    /\ stdout = <<>>
    /\ iterated = {}
    /\ run = 1
    /\ first_run = <<>>
    /\ last = NoLast
    /\ api_calls = 0
    /\ threads = NoThreads

\* the txids the threads ask for
ThreadTxids == {"p1", "p2", "zz"}

ThreadFrame ==
    UNCHANGED <<pc, args, descriptors, addr_map, node_wallets, scan_wallet, wallet_txs,
                utxos, chain, plan, fail_kind, FINDINGS, WARNINGS,
                stdout, iterated, run, first_run, last>>

\* a thread enters fetch_tx(txid)
ThreadCall(th) ==
    /\ pc = "threads"
    /\ threads[th].pc = "idle"
    /\ api_calls < MaxApiCalls
    /\ \E txid \in ThreadTxids :
          threads' = [threads EXCEPT ![th] = [pc |-> "test", txid |-> txid,
                                              n |-> 0, res |-> None]]
    /\ api_calls' = api_calls + 1
    /\ UNCHANGED <<g, calls>>
    /\ ThreadFrame

\* line 200, "if txid not in self.tx_cache", and the start of get_tx(txid)
ThreadTest(th) ==
    /\ threads[th].pc = "test"
    /\ LET txid == threads[th].txid
       IN  IF txid \notin DOMAIN g.tx_cache
           THEN /\ calls' = [calls EXCEPT ![txid] = @ + 1]
                /\ threads' = [threads EXCEPT ![th].pc = "get_tx",
                                              ![th].n = calls[txid] + 1]
           ELSE /\ calls' = calls
                /\ threads' = [threads EXCEPT ![th].pc = "return"]
    /\ UNCHANGED <<g, api_calls>>
    /\ ThreadFrame

\* lines 201-204: get_tx returns and its result is stored, or it raises and
\* fetch_tx returns None
ThreadGetTx(th) ==
    /\ threads[th].pc = "get_tx"
    /\ LET txid == threads[th].txid
       IN  IF GetTxRaises(txid, threads[th].n)
           THEN /\ g' = g
                /\ threads' = [threads EXCEPT ![th].pc = "idle", ![th].res = None]
           ELSE /\ g' = [g EXCEPT !.tx_cache = Put(@, txid, chain[txid])]
                /\ threads' = [threads EXCEPT ![th].pc = "return"]
    /\ UNCHANGED <<calls, api_calls>>
    /\ ThreadFrame

\* line 205: return self.tx_cache[txid]
ThreadReturn(th) ==
    /\ threads[th].pc = "return"
    /\ threads' = [threads EXCEPT ![th].pc = "idle",
                                  ![th].res = g.tx_cache[threads[th].txid]]
    /\ UNCHANGED <<g, calls, api_calls>>
    /\ ThreadFrame

NextConcurrent ==
    \/ \E th \in Threads : ThreadCall(th)
    \/ \E th \in Threads : ThreadTest(th)
    \/ \E th \in Threads : ThreadGetTx(th)
    \/ \E th \in Threads : ThreadReturn(th)

SpecConcurrent == InitConcurrent /\ [][NextConcurrent]_vars

-----------------------------------------------------------------------------
(* Properties *)

\* a decode call for t was made and failed, and t is still not in the cache
DecodeFailed(t) == calls[t] > 0 /\ t \notin DOMAIN g.tx_cache

\* C1: within one run, get_tx is issued at most once for every txid,
\* whatever the outcome of the decode call.
C1_DecodedAtMostOnce == \A t \in Txids : calls[t] <= 1

\* the txids of the wallet-history records, the empty ones left out
HistoryTxids == {wallet_txs[i].txid : i \in 1..Len(wallet_txs)} \ {""}

\* C2: our_txids is exactly the set of non-empty txids of the wallet-history
\* records given at construction; fetching parents or grandparents never adds
\* to it, and the detectors' loops draw no txid outside it.
C2_OurTxidsAreHistoryTxids ==
    g # None => /\ g.our_txids = HistoryTxids
                /\ iterated \subseteq HistoryTxids

\* all detectors have run, parents outside the history were decoded, and the
\* history holds a record without txid
C2_Witness ==
    /\ pc = "report"
    /\ iterated = g.our_txids
    /\ iterated # {}
    /\ \E t \in DOMAIN g.tx_cache : t \notin g.our_txids
    /\ \E i \in 1..Len(wallet_txs) : wallet_txs[i].txid = ""

\* C3: fetch_tx never raises; when the decode call fails (error or timeout)
\* it returns None and leaves the cache and every other field of the graph
\* as they were.
C3_FetchTxNeverRaises ==
    [][(last'.op = "fetch_tx" /\ api_calls' # api_calls)
          => /\ ~last'.raised
             /\ last'.failed => (last'.res = None /\ g' = g)]_vars

\* a fetch_tx whose decode call timed out, on a graph whose cache is not empty
C3_Witness ==
    /\ last.op = "fetch_tx"
    /\ last.failed
    /\ last.res = None
    /\ fail_kind = "TimeoutExpired"
    /\ DOMAIN g.tx_cache # {}

\* the findings of one type, as the set of their positions in FINDINGS
Of(type) == {i \in 1..Len(FINDINGS) : FINDINGS[i].type = type}

\* every entry of the vin of txid spends an output paid to an owned address
AllVinOwned(txid) ==
    \A i \in 1..Len(chain[txid].vin) :
       LET vin == chain[txid].vin[i]
       IN  /\ ~vin.coinbase
           /\ vin.txid \in DOMAIN chain
           /\ chain[vin.txid].vout[vin.vout + 1].scriptPubKey.address \in g.our_addrs

\* C4: a CIOH finding is CRITICAL if and only if every entry of the vin of
\* the flagged transaction resolves to an owned address, and HIGH otherwise.
C4_CriticalIffAllInputsOwned ==
    \A i \in Of("CIOH") :
       /\ FINDINGS[i].severity \in {"CRITICAL", "HIGH"}
       /\ FINDINGS[i].severity = "CRITICAL" <=> AllVinOwned(FINDINGS[i].details.txid)

\* the distinct txids of the 'receive' records of an address in the history
ReceivingTxids(addr) ==
    {wallet_txs[i].txid : i \in {j \in 1..Len(wallet_txs) :
         wallet_txs[j].address = addr /\ wallet_txs[j].category = "receive"}} \ {""}

\* C5: detect_01 emits exactly one ADDRESS_REUSE finding, of severity HIGH,
\* for each owned address whose 'receive' records cover at least two distinct
\* txids, none for any other address, and the finding lists all those txids.
C5_OneReuseFindingPerReusedAddress ==
    pc = "d2" =>
      /\ \A a \in g.our_addrs :
            Cardinality({i \in Of("ADDRESS_REUSE") : FINDINGS[i].details.address = a})
              = IF Cardinality(ReceivingTxids(a)) >= 2 THEN 1 ELSE 0
      /\ \A i \in 1..Len(FINDINGS) :
            /\ FINDINGS[i].type = "ADDRESS_REUSE"
            /\ FINDINGS[i].severity = "HIGH"
            /\ FINDINGS[i].details.address \in g.our_addrs
            /\ {FINDINGS[i].details.txids[j].txid : j \in 1..Len(FINDINGS[i].details.txids)}
                 = ReceivingTxids(FINDINGS[i].details.address)

\* detect_01 has reported a reused address while another owned address has
\* two 'receive' records of one txid only and got no finding
C5_Witness ==
    /\ pc = "d2"
    /\ FINDINGS # <<>>
    /\ \E a \in g.our_addrs :
          /\ Cardinality(ReceivingTxids(a)) = 1
          /\ Len(SelectSeq(wallet_txs,
                 LAMBDA w : w.address = a /\ w.category = "receive" /\ w.txid # "")) >= 2
          /\ \A i \in 1..Len(FINDINGS) : FINDINGS[i].details.address # a

\* the DUST findings of one status for a (txid, address) pair
Dust(status, txid, address) ==
    {i \in Of("DUST") : /\ FINDINGS[i].details.status = status
                        /\ FINDINGS[i].details.txid = txid
                        /\ FINDINGS[i].details.address = address}

\* C6: detect_03 never emits an 'unspent' and a 'spent' DUST finding for the
\* same (txid, address), and never two 'spent' findings for the same pair.
C6_DustPairsNotDuplicated ==
    \A t \in Txids, a \in Range(AddrList) :
       /\ ~(Dust("unspent", t, a) # {} /\ Dust("spent", t, a) # {})
       /\ Cardinality(Dust("spent", t, a)) <= 1

\* detect_03 has run on a history where one transaction pays two dust
\* outputs to one owned address, reported once as spent, and where another
\* dust output to an owned address is reported as unspent only
C6_Witness ==
    /\ pc = "d4"
    /\ \E t \in g.our_txids, a \in g.our_addrs :
          /\ Cardinality({n \in 1..Len(chain[t].vout) :
                            /\ chain[t].vout[n].scriptPubKey.address = a
                            /\ chain[t].vout[n].value <= DUST_SATS}) >= 2
          /\ Cardinality(Dust("spent", t, a)) = 1
    /\ \E t \in g.our_txids, a \in g.our_addrs :
          /\ t \in DOMAIN g.tx_cache
          /\ Dust("unspent", t, a) # {}
          /\ Dust("spent", t, a) = {}

\* C7: running detectors 1 to 12 a second time on the same unchanged TxGraph
\* leaves a findings list identical to the one after the first run.
C7_SecondRunSameFindings ==
    (run = 2 /\ pc = "report") => FINDINGS = first_run

Severities == {"LOW", "MEDIUM", "HIGH", "CRITICAL"}

Kinds ==
    {"ADDRESS_REUSE", "CIOH", "DUST", "DUST_SPENDING", "CHANGE_DETECTION",
     "CONSOLIDATION", "SCRIPT_TYPE_MIXING", "CLUSTER_MERGE", "UTXO_AGE_SPREAD",
     "EXCHANGE_ORIGIN", "TAINTED_UTXO_MERGE", "BEHAVIORAL_FINGERPRINT"}

WellFormed(findings) ==
    \A i \in 1..Len(findings) :
       findings[i].severity \in Severities /\ findings[i].type \in Kinds

\* C8: every finding has a severity among LOW, MEDIUM, HIGH, CRITICAL and a
\* type among the twelve detector kinds, and a finding once appended is never
\* changed or removed: the list only grows at its end.
C8_FindingsWellFormedAndAppendOnly ==
    [][WellFormed(FINDINGS') /\ IsPrefix(FINDINGS, FINDINGS')]_vars

\* the pipeline is through, with findings of at least five kinds and of three
\* severities, and with warnings kept apart
C8_Witness ==
    /\ pc = "report"
    /\ Cardinality({FINDINGS[i].type : i \in 1..Len(FINDINGS)}) >= 5
    /\ Cardinality({FINDINGS[i].severity : i \in 1..Len(FINDINGS)}) >= 3
    /\ WARNINGS # <<>>

\* C9: whatever set of txids fails to decode, no detector raises: the run
\* never leaves the detector sequence through an exception.
C9_DetectorsNeverRaise == pc # "aborted"

\* all twelve detectors have returned in a run where the decode of an owned
\* transaction and the decode of a parent outside the history failed
C9_Witness ==
    /\ pc = "report"
    /\ \E t \in g.our_txids : DecodeFailed(t)
    /\ \E t \in Txids \ g.our_txids : DecodeFailed(t) /\ t \in DOMAIN chain

\* the output is a complete report: stats, findings, warnings and summary
IsReport(doc) == DOMAIN doc = {"stats", "findings", "warnings", "summary"}

\* C10: an invocation that supplies a wallet or a descriptor ends by printing
\* a complete report, whatever the collaborators return; it is never replaced
\* by an error and the run is never aborted.
C10_AlwaysEndsWithReport ==
    (pc \in {"done", "aborted"} /\ (args.wallet # "" \/ args.descriptors # <<>>))
       => /\ pc = "done"
          /\ stdout # <<>>
          /\ IsReport(stdout[Len(stdout)])

\* C11 as stated: the graph after a detector returns, the decoded-transaction
\* cache included, equals the graph before the detector was called.
C11_GraphUnchangedByDetectors == [][g' = g]_vars

\* C11, amended: a detector leaves every field of the graph but the cache as
\* it was, and the cache only gains entries: an entry once cached is kept
\* unchanged.
C11_OnlyCacheGrows ==
    [][/\ [g' EXCEPT !.tx_cache = g.tx_cache] = g
       /\ \A t \in DOMAIN g.tx_cache :
             t \in DOMAIN g'.tx_cache /\ g'.tx_cache[t] = g.tx_cache[t]]_vars

\* the twelve detectors have returned, the cache holds owned transactions and
\* parents, and the rest of the graph is as the constructor built it
C11_Witness ==
    /\ pc = "report"
    /\ DOMAIN g.tx_cache \cap g.our_txids # {}
    /\ DOMAIN g.tx_cache \ g.our_txids # {}
    /\ [g EXCEPT !.tx_cache = <<>>] = TxGraphInit(addr_map, wallet_txs, utxos)

\* the decode calls for txid that have been issued and have not returned yet
InFlight(txid) == {th \in Threads : threads[th].pc = "get_tx" /\ threads[th].txid = txid}

\* C12: when fetch_tx is called concurrently on the shared graph, at most one
\* decode call per txid is in flight at any time, and no txid is decoded more
\* than once.
C12_SingleFlight ==
    \A t \in Txids : Cardinality(InFlight(t)) <= 1 /\ calls[t] <= 1

\* the detector (1..12) that emits findings or warnings of a type
DetectorOf(type) ==
    CASE type = "ADDRESS_REUSE" -> 1
      [] type = "CIOH" -> 2
      [] type = "DUST" -> 3
      [] type = "DUST_SPENDING" -> 4
      [] type = "CHANGE_DETECTION" -> 5
      [] type = "CONSOLIDATION" -> 6
      [] type = "SCRIPT_TYPE_MIXING" -> 7
      [] type = "CLUSTER_MERGE" -> 8
      [] type \in {"UTXO_AGE_SPREAD", "DORMANT_UTXOS"} -> 9
      [] type = "EXCHANGE_ORIGIN" -> 10
      [] type \in {"TAINTED_UTXO_MERGE", "DIRECT_TAINT"} -> 11
      [] type = "BEHAVIORAL_FINGERPRINT" -> 12

InDetectorOrder(list) ==
    \A i, j \in 1..Len(list) :
       DetectorOf(list[i].type) < DetectorOf(list[j].type) => i < j

\* C13: in the report the findings, and likewise the warnings, are in
\* detector order; the summary counts are the lengths of the two lists and
\* the clean flag is true iff both counts are zero.
C13_ReportInDetectorOrder ==
    \A k \in 1..Len(stdout) :
       IsReport(stdout[k]) =>
          /\ InDetectorOrder(stdout[k].findings)
          /\ InDetectorOrder(stdout[k].warnings)
          /\ stdout[k].summary.findings = Len(stdout[k].findings)
          /\ stdout[k].summary.warnings = Len(stdout[k].warnings)
          /\ stdout[k].summary.clean
               <=> (stdout[k].summary.findings = 0 /\ stdout[k].summary.warnings = 0)

\* a report was printed with findings of five detectors or more, several of
\* them from one detector, and with warnings of two detectors
C13_Witness ==
    /\ pc = "cleanup"
    /\ stdout # <<>>
    /\ LET doc == stdout[Len(stdout)]
       IN  /\ IsReport(doc)
           /\ Cardinality({DetectorOf(doc.findings[i].type) : i \in 1..Len(doc.findings)}) >= 5
           /\ Len(doc.findings) >= 8
           /\ Cardinality({DetectorOf(doc.warnings[i].type) : i \in 1..Len(doc.warnings)}) = 2
           /\ ~doc.summary.clean

\* the run has ended in the usage error with nothing resolved, derived, read,
\* built or reported
UsageErrorBeforeAnalysis ==
    pc = "usage_error" =>
       /\ args.wallet = "" /\ args.descriptors = <<>>
       /\ descriptors = <<>> /\ addr_map = <<>> /\ scan_wallet = ""
       /\ wallet_txs = <<>> /\ utxos = <<>> /\ g = None
       /\ calls = NoCalls /\ FINDINGS = <<>> /\ WARNINGS = <<>> /\ stdout = <<>>

\* the run has ended without a report
EndedWithoutReport ==
    \/ pc \in {"usage_error", "aborted"}
    \/ pc = "done" /\ (stdout = <<>> \/ ~IsReport(stdout[Len(stdout)]))

\* C14: without a wallet and without a descriptor the run ends in a usage
\* error before anything is resolved, derived, built or found, and this is
\* the only condition under which a run ends without its analysis.
C14_UsageErrorOnlyFailFast ==
    /\ UsageErrorBeforeAnalysis
    /\ EndedWithoutReport => (args.wallet = "" /\ args.descriptors = <<>>)

\* a descriptor string without its '#checksum' suffix
Stripped(raw) ==
    IF \E i \in 1..Len(raw) : raw[i] = "#"
    THEN SubSeq(raw, 1, (CHOOSE i \in 1..Len(raw) :
                            raw[i] = "#" /\ \A j \in 1..(i - 1) : raw[j] # "#") - 1)
    ELSE raw

\* a descriptor with every occurrence of one branch marker turned into another
Mirror(base, from, to) == [i \in 1..Len(base) |-> IF base[i] = from THEN to ELSE base[i]]

\* the specs the claim expects for one raw descriptor: <<string, internal>>
ExpectedFor(raw) ==
    LET base == Stripped(raw)
    IN  IF "/0/*" \in Range(base)
        THEN <<<<base, FALSE>>, <<Mirror(base, "/0/*", "/1/*"), TRUE>>>>
        ELSE IF "/1/*" \in Range(base)
        THEN <<<<Mirror(base, "/1/*", "/0/*"), FALSE>>, <<base, TRUE>>>>
        ELSE <<<<base, FALSE>>>>

RECURSIVE ExpectedSpecs(_)
ExpectedSpecs(raws) ==
    IF raws = <<>> THEN <<>> ELSE ExpectedFor(Head(raws)) \o ExpectedSpecs(Tail(raws))

\* C15: for raw descriptors, resolve_descriptors yields for each one, checksum
\* stripped, the descriptor as external and its '/1/*' mirror as internal when
\* it has the '/0/*' marker, the '/0/*' mirror as external and itself as
\* internal when it has only the '/1/*' marker, and one external spec
\* otherwise; a candidate whose canonicalization fails still gets its spec,
\* from the un-normalized string, and resolution goes on.
C15_MirroredDescriptors ==
    (args.wallet = "" /\ pc \notin {"start", "usage_error", "resolve"}) =>
       LET exp == ExpectedSpecs(args.descriptors)
       IN  /\ Len(descriptors) = Len(exp)
           /\ \A k \in 1..Len(exp) :
                 /\ descriptors[k].internal = exp[k][2]
                 /\ descriptors[k].desc \in {exp[k][1], DescriptorInfo(exp[k][1])}

\* two raw descriptors were resolved, one with only the internal marker, and
\* canonicalization failed for one candidate and succeeded for another
C15_Witness ==
    /\ pc = "derive"
    /\ args.wallet = ""
    /\ Len(args.descriptors) = 2
    /\ \E i \in 1..2 : "/0/*" \notin Range(args.descriptors[i])
                       /\ "/1/*" \in Range(args.descriptors[i])
    /\ \E k \in 1..Len(descriptors) : "#" \notin Range(descriptors[k].desc)
    /\ \E k \in 1..Len(descriptors) : "#" \in Range(descriptors[k].desc)

\* every decode either succeeds at its first call or fails at every call
StablePlan == \A t \in Txids : plan[t] \in {0, Always}

\* the node decodes t in a run with a stable plan
Decodes(t) == t \in DOMAIN chain /\ plan[t] = 0

\* the spent outputs of the resolved inputs of t: the entries of its vin that
\* are no coinbase and whose parent decodes
SpentOutputs(t) ==
    {chain[chain[t].vin[i].txid].vout[chain[t].vin[i].vout + 1] :
        i \in {j \in 1..Len(chain[t].vin) :
                 ~chain[t].vin[j].coinbase /\ Decodes(chain[t].vin[j].txid)}}

OwnedInputs(t) == {o \in SpentOutputs(t) : o.scriptPubKey.address \in g.our_addrs}
OwnedOutputs(t) == {o \in Range(chain[t].vout) : o.scriptPubKey.address \in g.our_addrs}
ExternalOutputs(t) == {o \in Range(chain[t].vout) : o.scriptPubKey.address \notin g.our_addrs}

\* the three heuristics for an (owned output, external output) pair of t
RoundPayment(own, ext) == ext.value % 100000 = 0 /\ own.value % 100000 # 0
SameTypeAsInputs(t, own, ext) ==
    /\ GetScriptType(own.scriptPubKey.address)
          \in {GetScriptType(i.scriptPubKey.address) : i \in OwnedInputs(t)}
    /\ own.scriptPubKey.type # ext.scriptPubKey.type
InternalBranch(own) == g.addr_map[own.scriptPubKey.address].internal

ChangeIsDetectable(t) ==
    /\ Decodes(t)
    /\ OwnedInputs(t) # {}
    /\ \E own \in OwnedOutputs(t), ext \in ExternalOutputs(t) :
          RoundPayment(own, ext) \/ SameTypeAsInputs(t, own, ext) \/ InternalBranch(own)

\* C16: detect_05 emits exactly one CHANGE_DETECTION finding, of severity
\* MEDIUM, for an owned txid if and only if the transaction has an owned
\* input, an owned output and an external output and one of the three
\* heuristics holds for some (owned output, external output) pair; a
\* transaction without an owned input is never flagged.  Inputs are the
\* resolved ones, in runs where a decode fails always or never.
C16_ChangeDetectionIff ==
    (pc = "d6" /\ StablePlan) =>
       /\ \A t \in g.our_txids :
             Cardinality({i \in Of("CHANGE_DETECTION") : FINDINGS[i].details.txid = t})
               = IF ChangeIsDetectable(t) THEN 1 ELSE 0
       /\ \A i \in Of("CHANGE_DETECTION") :
             FINDINGS[i].severity = "MEDIUM" /\ FINDINGS[i].details.txid \in g.our_txids

\* detect_05 has flagged a send, has left alone a send with an owned and an
\* external output that match no heuristic, and has left alone a received
\* transaction whose round external output sits next to a non-round owned one
C16_Witness ==
    /\ pc = "d6"
    /\ StablePlan
    /\ Of("CHANGE_DETECTION") # {}
    /\ \E t \in g.our_txids :
          /\ Decodes(t) /\ OwnedInputs(t) # {}
          /\ OwnedOutputs(t) # {} /\ ExternalOutputs(t) # {}
          /\ ~ChangeIsDetectable(t)
    /\ \E t \in g.our_txids :
          /\ Decodes(t) /\ OwnedInputs(t) = {}
          /\ \E own \in OwnedOutputs(t), ext \in ExternalOutputs(t) : RoundPayment(own, ext)

\* the reasons that match for the pair (own, ext) of outputs of t
MatchedReasons(t, own, ext) ==
    (IF RoundPayment(own, ext)
     THEN {Reason("round_payment", ext.value, own.value, "", "")} ELSE {})
    \cup (IF SameTypeAsInputs(t, own, ext)
          THEN {Reason("script_type", 0, 0, own.scriptPubKey.type, ext.scriptPubKey.type)}
          ELSE {})
    \cup (IF InternalBranch(own) THEN {Reason("internal_path", 0, 0, "", "")} ELSE {})

AllMatchedReasons(t) ==
    UNION {MatchedReasons(t, own, ext) : own \in OwnedOutputs(t), ext \in ExternalOutputs(t)}

\* C17: the reasons list of a CHANGE_DETECTION finding has an entry for every
\* (owned output, external output) pair and every heuristic that matches the
\* pair, for any number of owned and external outputs.
C17_EveryMatchedReasonListed ==
    (pc = "d6" /\ StablePlan) =>
       \A i \in Of("CHANGE_DETECTION") :
          AllMatchedReasons(FINDINGS[i].details.txid) \subseteq Range(FINDINGS[i].details.reasons)

\* what the code keeps: the first MAX_REASONS of the matched reasons, all of
\* them when there are no more than that
C17_ListedUpToMaxReasons ==
    (pc = "d6" /\ StablePlan) =>
       \A i \in Of("CHANGE_DETECTION") :
          LET d == FINDINGS[i].details
          IN  /\ Range(d.reasons) \subseteq AllMatchedReasons(d.txid)
              /\ Len(d.reasons) = Min(d.matched, MAX_REASONS)
              /\ d.matched <= MAX_REASONS => Range(d.reasons) = AllMatchedReasons(d.txid)

\* a send with one round external output and one non-round owned output on
\* the internal branch has one finding that cites both reasons
C17_ScenarioD ==
    /\ pc = "d6"
    /\ StablePlan
    /\ \E i \in Of("CHANGE_DETECTION") :
          LET t == FINDINGS[i].details.txid
          IN  /\ Len(chain[t].vout) = 2
              /\ \E own \in OwnedOutputs(t), ext \in ExternalOutputs(t) :
                    /\ RoundPayment(own, ext) /\ InternalBranch(own)
                    /\ {"round_payment", "internal_path"}
                          \subseteq {r.reason : r \in Range(FINDINGS[i].details.reasons)}

\* the positions in the vin of t whose input resolves to an owned address
OwnedVin(t) ==
    {j \in 1..Len(chain[t].vin) :
        /\ ~chain[t].vin[j].coinbase
        /\ Decodes(chain[t].vin[j].txid)
        /\ chain[chain[t].vin[j].txid].vout[chain[t].vin[j].vout + 1].scriptPubKey.address
              \in g.our_addrs}

CiohExpected(t) == Decodes(t) /\ Len(chain[t].vin) >= 2 /\ Cardinality(OwnedVin(t)) >= 2

ConsolidationShape(t) == Len(chain[t].vin) >= 3 /\ Len(chain[t].vout) <= 2

\* the fields of a CIOH finding that say something about the inputs
CiohInputFields ==
    {"txid", "total_inputs", "our_inputs", "external_inputs", "ownership_pct", "our_addresses"}

\* the finding carries the output count of its transaction next to the input count
NotesShape(d) ==
    /\ d.total_inputs = Len(chain[d.txid].vin)
    /\ \E k \in DOMAIN d \ CiohInputFields : d[k] = Len(chain[d.txid].vout)

\* detect_02 emits exactly one CIOH finding for an owned txid if and only if
\* the transaction has at least 2 inputs of which at least 2 resolve to owned
\* addresses
CiohIff ==
    (pc = "d3" /\ StablePlan) =>
       \A t \in g.our_txids :
          Cardinality({i \in Of("CIOH") : FINDINGS[i].details.txid = t})
            = IF CiohExpected(t) THEN 1 ELSE 0

\* C18: detect_02 emits exactly one CIOH finding for an owned txid if and only
\* if the transaction has at least 2 inputs of which at least 2 resolve to
\* owned addresses, and the finding of a transaction with at least 3 inputs
\* and at most 2 outputs notes the consolidation shape: its input count and
\* its output count.
C18_CiohNotesConsolidationShape ==
    /\ CiohIff
    /\ (pc = "d3" /\ StablePlan) =>
          \A i \in Of("CIOH") :
             ConsolidationShape(FINDINGS[i].details.txid) => NotesShape(FINDINGS[i].details)

\* a flagged transaction of consolidation shape with every input owned
C18_FlaggedConsolidation ==
    /\ pc = "d3"
    /\ StablePlan
    /\ \E i \in Of("CIOH") :
          /\ ConsolidationShape(FINDINGS[i].details.txid)
          /\ FINDINGS[i].severity = "CRITICAL"
          /\ FINDINGS[i].details.total_inputs = Len(chain[FINDINGS[i].details.txid].vin)

\* the DUST findings of one status for the output (txid, address)
DustOf(status, txid, address) ==
    {i \in Of("DUST") : /\ FINDINGS[i].details.status = status
                        /\ FINDINGS[i].details.txid = txid
                        /\ FINDINGS[i].details.address = address}

\* the outpoints of the current UTXO set
Outpoints == {<<g.utxos[k].txid, g.utxos[k].vout>> : k \in 1..Len(g.utxos)}

\* the unspent half of the policy: an owned UTXO of at most 546 sats has one
\* finding, HIGH and tagged strict; one above 546 and of at most 1000 sats
\* has one finding, MEDIUM and tagged dust-class; one above 1000 sats has none
DustUnspentPolicy ==
    pc = "d4" =>
       \A k \in 1..Len(g.utxos) :
          LET u == g.utxos[k]
              mine == {i \in DustOf("unspent", u.txid, u.address) :
                          FINDINGS[i].details.vout = u.vout}
          IN  u.address \in g.our_addrs =>
                 /\ Cardinality(mine) = IF u.amount <= 1000 THEN 1 ELSE 0
                 /\ \A i \in mine :
                       /\ FINDINGS[i].details.sats = u.amount
                       /\ u.amount <= 546 =>
                             /\ FINDINGS[i].severity = "HIGH"
                             /\ FINDINGS[i].details.label = "STRICT_DUST"
                       /\ u.amount > 546 =>
                             /\ FINDINGS[i].severity = "MEDIUM"
                             /\ FINDINGS[i].details.label = "dust-class"

\* the owned outputs of at most 1000 sats of the decoded owned transactions
\* that are not in the current UTXO set
SpentDustOutputs ==
    {<<t, o>> \in UNION {{<<t, o>> : o \in Range(chain[t].vout)} :
                            t \in {x \in g.our_txids : Decodes(x)}} :
        /\ o.scriptPubKey.address \in g.our_addrs
        /\ o.value <= 1000
        /\ <<t, o.n>> \notin Outpoints}

\* an owned output of exactly 546 sats that is in the current UTXO set has
\* one DUST finding in total
DustNeverSpent546 ==
    pc = "d4" =>
       \A k \in 1..Len(g.utxos) :
          LET u == g.utxos[k]
          IN  (u.address \in g.our_addrs /\ u.amount = 546
               /\ \A j \in 1..Len(g.utxos) :
                     (g.utxos[j].txid = u.txid /\ g.utxos[j].address = u.address) => j = k)
              => Cardinality(DustOf("unspent", u.txid, u.address)
                             \cup DustOf("spent", u.txid, u.address)) = 1

CurrentKeys ==
    {<<g.utxos[k].txid, g.utxos[k].address>> :
        k \in {j \in 1..Len(g.utxos) :
                 g.utxos[j].amount <= 1000 /\ g.utxos[j].address \in g.our_addrs}}

\* what the code does for history: one LOW finding for each (txid, address)
\* of a spent dust output, unless a dust UTXO has the same txid and address
DustSpentPolicyByAddress ==
    (pc = "d4" /\ StablePlan) =>
       \A p \in SpentDustOutputs :
          LET key == <<p[1], p[2].scriptPubKey.address>>
              mine == DustOf("spent", key[1], key[2])
          IN  /\ Cardinality(mine) = IF key \in CurrentKeys THEN 0 ELSE 1
              /\ \A i \in mine : FINDINGS[i].severity = "LOW"

\* detect_03 has reported a strict and a dust-class UTXO, and has passed over
\* a spent dust output whose transaction pays a dust UTXO to the same address
C19_SpentDustPassedOver ==
    /\ pc = "d4"
    /\ StablePlan
    /\ \E i, j \in Of("DUST") :
          /\ FINDINGS[i].severity = "HIGH" /\ FINDINGS[i].details.sats = 546
          /\ FINDINGS[j].severity = "MEDIUM" /\ FINDINGS[j].details.sats = 1000
    /\ \E p \in SpentDustOutputs :
          /\ <<p[1], p[2].scriptPubKey.address>> \in CurrentKeys
          /\ DustOf("spent", p[1], p[2].scriptPubKey.address) = {}

\* the owned transactions with an input that resolves to an owned address
OwnedSends == {t \in g.our_txids : Decodes(t) /\ OwnedVin(t) # {}}

\* with fewer than 3 owned sends detect_12 adds no finding
NoFingerprintBelowMinSends ==
    (pc = "report" /\ StablePlan /\ Cardinality(OwnedSends) < 3) =>
       Of("BEHAVIORAL_FINGERPRINT") = {}

\* what the code does: at most one finding, of severity MEDIUM, that lists
\* the matched patterns, at least one and each one once
OneFingerprintFinding ==
    pc = "report" =>
       /\ Cardinality(Of("BEHAVIORAL_FINGERPRINT")) <= 1
       /\ \A i \in Of("BEHAVIORAL_FINGERPRINT") :
             LET d == FINDINGS[i].details
             IN  /\ FINDINGS[i].severity = "MEDIUM"
                 /\ d.send_tx_count >= 3
                 /\ d.patterns # <<>>
                 /\ \A a, b \in 1..Len(d.patterns) :
                       d.patterns[a].pattern = d.patterns[b].pattern => a = b

\* C20: detect_12 fires one finding per matched pattern: when k of the eight
\* patterns match over at least 3 owned sends, the findings list gains k
\* BEHAVIORAL_FINGERPRINT findings of severity MEDIUM; with fewer than 3
\* owned sends it gains none.
C20_OneFindingPerPattern ==
    /\ NoFingerprintBelowMinSends
    /\ pc = "report" =>
          \A i \in Of("BEHAVIORAL_FINGERPRINT") :
             /\ FINDINGS[i].severity = "MEDIUM"
             /\ Cardinality(Of("BEHAVIORAL_FINGERPRINT")) = Len(FINDINGS[i].details.patterns)

\* detect_12 has matched several patterns over at least 3 sends
C20_SeveralPatternsMatched ==
    /\ pc = "report"
    /\ StablePlan
    /\ Cardinality(OwnedSends) >= 3
    /\ \E i \in Of("BEHAVIORAL_FINGERPRINT") : Len(FINDINGS[i].details.patterns) >= 2

\* the names of the patterns detect_12 has reported
ReportedPatterns ==
    UNION {{FINDINGS[i].details.patterns[k].pattern :
               k \in 1..Len(FINDINGS[i].details.patterns)} :
           i \in Of("BEHAVIORAL_FINGERPRINT")}

\* C21: detect_12 reports the uniform-output-count pattern if and only if
\* there are at least 3 owned sends (transactions with an owned input) and
\* all of them have the same number of outputs, in runs where a decode fails
\* always or never.
C21_UniformOutputCountIff ==
    (pc = "report" /\ StablePlan) =>
       ("uniform_output_count" \in ReportedPatterns
          <=> /\ Cardinality(OwnedSends) >= 3
              /\ \A a, b \in OwnedSends : Len(chain[a].vout) = Len(chain[b].vout))

\* five owned sends of 2 outputs each have fired the pattern
C21_FiveUniformSends ==
    /\ pc = "report"
    /\ StablePlan
    /\ Cardinality(OwnedSends) = 5
    /\ \A t \in OwnedSends : Len(chain[t].vout) = 2
    /\ "uniform_output_count" \in ReportedPatterns

\* four owned sends of varying output counts whose finding lacks the pattern
C21_FourVaryingSends ==
    /\ pc = "report"
    /\ StablePlan
    /\ Cardinality(OwnedSends) = 4
    /\ \E a, b \in OwnedSends : Len(chain[a].vout) # Len(chain[b].vout)
    /\ Of("BEHAVIORAL_FINGERPRINT") # {}
    /\ "uniform_output_count" \notin ReportedPatterns

\* at least 3 owned sends, all with the same number n of inputs, n >= least
SendsOfConstantInputCount(least) ==
    /\ Cardinality(OwnedSends) >= 3
    /\ \A a, b \in OwnedSends : Len(chain[a].vin) = Len(chain[b].vin)
    /\ \A a \in OwnedSends : Len(chain[a].vin) >= least

\* C22: detect_12 reports the constant-input-count pattern whenever all owned
\* sends, at least 3, have the same nonzero number n of inputs, for every
\* n >= 1.
C22_ConstantInputCountFromOne ==
    (pc = "report" /\ StablePlan /\ SendsOfConstantInputCount(1)) =>
       "constant_input_count" \in ReportedPatterns

\* C22, as the code has it: detect_12 reports the constant-input-count
\* pattern if and only if all owned sends, at least 3, have the same number
\* n of inputs and n >= 2; sends of one input each are not a pattern.
C22_ConstantInputCountFromTwo ==
    (pc = "report" /\ StablePlan) =>
       ("constant_input_count" \in ReportedPatterns <=> SendsOfConstantInputCount(2))

\* three sends of three inputs each have fired the pattern
C22_ThreeTriplesFire ==
    /\ pc = "report"
    /\ StablePlan
    /\ SendsOfConstantInputCount(3)
    /\ "constant_input_count" \in ReportedPatterns

\* three sends of one input each have a finding without the pattern
C22_ThreeSinglesPass ==
    /\ pc = "report"
    /\ StablePlan
    /\ SendsOfConstantInputCount(1) /\ ~SendsOfConstantInputCount(2)
    /\ Of("BEHAVIORAL_FINGERPRINT") # {}
    /\ "constant_input_count" \notin ReportedPatterns

\* the script types of the owned (change) and of the external (payment)
\* outputs of the owned sends
ChangeTypes == UNION {{o.scriptPubKey.type : o \in OwnedOutputs(t)} : t \in OwnedSends}
PaymentTypes == UNION {{o.scriptPubKey.type : o \in ExternalOutputs(t)} : t \in OwnedSends}

\* C23: detect_12 reports the change-vs-payment pattern if and only if, over
\* at least 3 owned sends, the set of script types of the owned outputs and
\* the set of script types of the external outputs are both non-empty and
\* disjoint; two sets that differ but share a type do not fire it.
C23_ChangeTypeDisjointIff ==
    (pc = "report" /\ StablePlan) =>
       ("change_type_differs" \in ReportedPatterns
          <=> /\ Cardinality(OwnedSends) >= 3
              /\ ChangeTypes # {} /\ PaymentTypes # {}
              /\ ChangeTypes \cap PaymentTypes = {})

\* what the code tests: the two sets are non-empty and not equal
ChangeTypeUnequalIff ==
    (pc = "report" /\ StablePlan) =>
       ("change_type_differs" \in ReportedPatterns
          <=> /\ Cardinality(OwnedSends) >= 3
              /\ ChangeTypes # {} /\ PaymentTypes # {}
              /\ ChangeTypes # PaymentTypes)

\* the pattern has fired for two sets that share a type
C23_FiredOnSharedType ==
    /\ pc = "report"
    /\ StablePlan
    /\ "change_type_differs" \in ReportedPatterns
    /\ ChangeTypes \cap PaymentTypes # {}

\* the parent transaction of the j-th input of t
ParentOf(t, j) == chain[chain[t].vin[j].txid]

\* the one-hop funding sources of the j-th input of t: the txids the parent
\* spends, with "coinbase" for a coinbase input
FundingTxids(t, j) ==
    {IF ParentOf(t, j).vin[i].coinbase THEN "coinbase" ELSE ParentOf(t, j).vin[i].txid :
        i \in 1..Len(ParentOf(t, j).vin)}

\* the same sources as the code keeps them, cut to 16 characters
FundingPrefixes(t, j) ==
    {IF x = "coinbase" THEN x ELSE Prefix16(x) : x \in FundingTxids(t, j)}

ClusterMergeExpected(t) ==
    /\ Decodes(t)
    /\ Cardinality(OwnedVin(t)) >= 2
    /\ \E i, j \in OwnedVin(t) : i # j /\ FundingTxids(t, i) \cap FundingTxids(t, j) = {}

\* C24: detect_08 emits a CLUSTER_MERGE finding, of severity HIGH, for an
\* owned txid if and only if the transaction has at least 2 owned inputs and
\* two of them have disjoint one-hop funding-source sets, the set of an input
\* being the txids its parent transaction spends, with "coinbase" for a
\* coinbase input.
C24_ClusterMergeIff ==
    (pc = "d9" /\ StablePlan) =>
       /\ \A t \in g.our_txids :
             Cardinality({i \in Of("CLUSTER_MERGE") : FINDINGS[i].details.txid = t})
               = IF ClusterMergeExpected(t) THEN 1 ELSE 0
       /\ \A i \in Of("CLUSTER_MERGE") : FINDINGS[i].severity = "HIGH"

\* what the code tests: the sets of 16-character prefixes of two owned inputs
\* of different parent prefix or output number are disjoint
ClusterMergeByPrefixIff ==
    (pc = "d9" /\ StablePlan) =>
       \A t \in g.our_txids :
          Cardinality({i \in Of("CLUSTER_MERGE") : FINDINGS[i].details.txid = t})
            = IF /\ Decodes(t)
                 /\ \E i, j \in OwnedVin(t) :
                       /\ <<Prefix16(chain[t].vin[i].txid), chain[t].vin[i].vout>>
                            # <<Prefix16(chain[t].vin[j].txid), chain[t].vin[j].vout>>
                       /\ FundingPrefixes(t, i) \cap FundingPrefixes(t, j) = {}
              THEN 1 ELSE 0

\* detect_08 has flagged a merge of two funding chains, has passed over a
\* transaction whose two owned inputs have one parent, and has passed over
\* one whose owned inputs have disjoint funding txids of the same prefix
C24_MergesSeen ==
    /\ pc = "d9"
    /\ StablePlan
    /\ \E i \in Of("CLUSTER_MERGE") : ClusterMergeExpected(FINDINGS[i].details.txid)
    /\ \E t \in g.our_txids :
          /\ Decodes(t) /\ Cardinality(OwnedVin(t)) >= 2 /\ ~ClusterMergeExpected(t)
    /\ \E t \in g.our_txids :
          /\ ClusterMergeExpected(t)
          /\ \A i \in Of("CLUSTER_MERGE") : FINDINGS[i].details.txid # t

\* risky_txids: the txids of the histories of the risky wallets the node has loaded
RiskyTxids ==
    IF args.known_risky_wallets.given
    THEN UNION {{LabelledHistory(w)[k].txid : k \in 1..Len(LabelledHistory(w))} \ {""} :
                  w \in Range(args.known_risky_wallets.names) \cap node_wallets}
    ELSE {}

\* the positions in the vin of t of the resolved inputs
ResolvedVin(t) ==
    {j \in 1..Len(chain[t].vin) : ~chain[t].vin[j].coinbase /\ Decodes(chain[t].vin[j].txid)}

\* t has at least 2 inputs, one funded by a risky txid and one that is not
MixesTaint(t) ==
    /\ Decodes(t)
    /\ Cardinality(ResolvedVin(t)) >= 2
    /\ \E j \in ResolvedVin(t) : chain[t].vin[j].txid \in RiskyTxids
    /\ \E j \in ResolvedVin(t) : chain[t].vin[j].txid \notin RiskyTxids

TaintMerges(t) == {i \in Of("TAINTED_UTXO_MERGE") : FINDINGS[i].details.txid = t}

DirectTaints(t) ==
    {i \in 1..Len(WARNINGS) : WARNINGS[i].type = "DIRECT_TAINT" /\ WARNINGS[i].details.txid = t}

\* C25: with a non-empty risky txid set, detect_11 emits one
\* TAINTED_UTXO_MERGE finding, of severity HIGH, for an owned txid if and only
\* if the transaction has at least 2 inputs, one whose funding txid is in the
\* risky set and one whose funding txid is not, and a direct-receipt warning
\* for every owned txid that is in the risky set; with no risky wallets or an
\* empty risky set it emits nothing.
C25_TaintMergeIffAndDirectWarnings ==
    (pc = "d12" /\ StablePlan) =>
       /\ \A t \in g.our_txids :
             /\ Cardinality(TaintMerges(t)) = IF RiskyTxids # {} /\ MixesTaint(t) THEN 1 ELSE 0
             /\ (t \in RiskyTxids) => DirectTaints(t) # {}
       /\ \A i \in Of("TAINTED_UTXO_MERGE") : FINDINGS[i].severity = "HIGH"
       /\ RiskyTxids = {} =>
             /\ Of("TAINTED_UTXO_MERGE") = {}
             /\ \A i \in 1..Len(WARNINGS) : WARNINGS[i].type # "DIRECT_TAINT"

\* what the code does: the merge finding needs an owned input as well, the
\* direct warning an owned output
TaintPolicyOfOwnedInputs ==
    (pc = "d12" /\ StablePlan) =>
       \A t \in g.our_txids :
          /\ Cardinality(TaintMerges(t))
               = IF RiskyTxids # {} /\ MixesTaint(t) /\ OwnedVin(t) # {} THEN 1 ELSE 0
          /\ Cardinality(DirectTaints(t))
               = IF t \in RiskyTxids /\ Decodes(t) /\ OwnedOutputs(t) # {} THEN 1 ELSE 0

\* detect_11 has flagged a merge and warned of a direct receipt, and has
\* passed over a received transaction that mixes a risky input with a clean one
C25_ReceivedMixPassedOver ==
    /\ pc = "d12"
    /\ StablePlan
    /\ Of("TAINTED_UTXO_MERGE") # {}
    /\ \E t \in g.our_txids : DirectTaints(t) # {}
    /\ g.our_addrs # {}
    /\ \E t \in g.our_txids :
          MixesTaint(t) /\ OwnedVin(t) = {} /\ OwnedOutputs(t) # {} /\ TaintMerges(t) = {}

\* the positions of the owned UTXOs in the current UTXO set
OwnedUtxos == {k \in 1..Len(g.utxos) : g.utxos[k].address \in g.our_addrs}

\* at least 2 owned UTXOs, the oldest at least 10 confirmations older than the newest
AgeSpreadExpected ==
    /\ Cardinality(OwnedUtxos) >= 2
    /\ \E a, b \in OwnedUtxos : g.utxos[a].confirmations - g.utxos[b].confirmations >= 10

DormantUtxos == {k \in OwnedUtxos : g.utxos[k].confirmations >= 100}

DormantWarnings == {i \in 1..Len(WARNINGS) : WARNINGS[i].type = "DORMANT_UTXOS"}

\* the finding half: one LOW UTXO_AGE_SPREAD finding iff there are at least 2
\* owned UTXOs whose confirmation counts are at least 10 apart
AgeSpreadIff ==
    pc = "d10" =>
       /\ Cardinality(Of("UTXO_AGE_SPREAD")) = IF AgeSpreadExpected THEN 1 ELSE 0
       /\ \A i \in Of("UTXO_AGE_SPREAD") : FINDINGS[i].severity = "LOW"

\* C26: detect_09 emits a LOW UTXO_AGE_SPREAD finding iff there are at least
\* 2 owned UTXOs and the highest and the lowest confirmation count among them
\* are at least 10 apart, and it emits the LOW dormant-UTXO warning whenever
\* some owned UTXO has at least 100 confirmations.
C26_AgeSpreadAndDormantWarning ==
    /\ AgeSpreadIff
    /\ pc = "d10" =>
          (DormantUtxos # {} =>
              /\ DormantWarnings # {}
              /\ \A i \in DormantWarnings : WARNINGS[i].severity = "LOW")

\* what the code does: the warning comes only with the finding
DormantWarningOnlyWithFinding ==
    pc = "d10" =>
       /\ Cardinality(DormantWarnings) = IF AgeSpreadExpected /\ DormantUtxos # {} THEN 1 ELSE 0
       /\ \A i \in DormantWarnings :
             /\ WARNINGS[i].severity = "LOW"
             /\ WARNINGS[i].details.count = Cardinality(DormantUtxos)

\* the non-coinbase inputs of a decoded transaction, in input order
NonCoinbaseInputs(tx) == SelectSeq(tx.vin, LAMBDA v : ~v.coinbase)

\* what the funding output of an input says: address and value of output
\* number prevVout of the funding transaction, with the funding txid and vout
FundingOf(cache, v) ==
    [address |-> cache[v.txid].vout[v.vout + 1].scriptPubKey.address,
     value   |-> cache[v.txid].vout[v.vout + 1].value,
     txid    |-> v.txid,
     vout    |-> v.vout]

\* a call of get_input_addresses has just returned
ReturnsInputAddresses == last'.op = "get_input_addresses" /\ api_calls' # api_calls

\* C27: get_input_addresses(txid) returns one entry per non-coinbase input of
\* the transaction, so the length of its result is the number of non-coinbase
\* inputs; it returns the empty list when the transaction cannot be fetched.
C27_OneEntryPerNonCoinbaseInput ==
    [][ReturnsInputAddresses =>
          /\ ~last'.raised
          /\ Len(last'.res)
               = IF last'.txid \in DOMAIN g'.tx_cache
                 THEN Len(NonCoinbaseInputs(g'.tx_cache[last'.txid]))
                 ELSE 0]_vars

\* the elements of seq at the positions of S, in order
PickSeq(seq, S) ==
    LET idx == SelectSeq([i \in 1..Len(seq) |-> i], LAMBDA i : i \in S)
    IN  [k \in 1..Len(idx) |-> seq[idx[k]]]

\* the decode of txid succeeds at every call, or txid is cached already
AlwaysFetched(txid) ==
    txid \in DOMAIN g.tx_cache \/ (txid \in DOMAIN chain /\ plan[txid] = 0)

\* the decode of txid fails at every call
NeverFetched(txid) == txid \notin DOMAIN chain \/ plan[txid] = Always

\* C27, as the code has it: get_input_addresses(txid) returns, in input
\* order, one entry per non-coinbase input whose funding transaction the call
\* could fetch, with the address and value of output number prevVout of the
\* funding transaction and the funding txid and vout; coinbase inputs and
\* inputs whose funding transaction cannot be fetched contribute no entry,
\* and the result is empty when the transaction itself cannot be fetched.
\* Hence the length of the result is at most the number of non-coinbase
\* inputs, and equal to it when every funding transaction can be fetched.
C27_OneEntryPerResolvedInput ==
    [][ReturnsInputAddresses =>
          /\ ~last'.raised
          /\ IF last'.txid \notin DOMAIN g'.tx_cache THEN last'.res = <<>>
             ELSE LET nc == NonCoinbaseInputs(chain[last'.txid])
                  IN  \E S \in SUBSET (1..Len(nc)) :
                         /\ \A i \in 1..Len(nc) :
                               /\ AlwaysFetched(nc[i].txid) => i \in S
                               /\ NeverFetched(nc[i].txid) => i \notin S
                         /\ last'.res = [k \in 1..Cardinality(S) |->
                                           FundingOf(chain, PickSeq(nc, S)[k])]]_vars

\* a call for a transaction of three inputs has returned the entries of the
\* inputs whose funding transaction the node decodes, and the second output
\* of a funding transaction is among them
C27_PartlyResolved ==
    /\ last.op = "get_input_addresses"
    /\ ~last.raised
    /\ last.txid \in DOMAIN g.tx_cache
    /\ Len(g.tx_cache[last.txid].vin) = 3
    /\ Len(last.res) \in {1, 2}
    /\ \E k \in 1..Len(last.res) : last.res[k].vout = 1

\* the client has repeated its last call: the same method for the same txid
RepeatsCall(op) ==
    /\ api_calls' # api_calls
    /\ last.op = op /\ last'.op = op
    /\ last'.txid = last.txid

\* C28: within one run any two calls of fetch_tx(txid) return the same result
\* and any two calls of get_input_addresses(txid) return the same list, also
\* when decode calls can fail.
C28_SameResolvedView ==
    [][/\ RepeatsCall("fetch_tx") => last'.res = last.res
       /\ RepeatsCall("get_input_addresses") => last'.res = last.res]_vars

\* the view is the same when no decode fails once and succeeds later
SameViewUnderStablePlan ==
    [][StablePlan =>
          /\ RepeatsCall("fetch_tx") => last'.res = last.res
          /\ RepeatsCall("get_input_addresses") => last'.res = last.res]_vars

\* a second fetch_tx of a txid has returned the transaction after the first
\* had returned None
C28_NoneThenDecoded ==
    /\ last.op = "fetch_tx"
    /\ last.res # None
    /\ calls[last.txid] = 2
    /\ api_calls = 2

\* the txids with a finding of one type
TxidsOf(type) == {FINDINGS[i].details.txid : i \in Of(type)}

MultiInputFindings ==
    TxidsOf("SCRIPT_TYPE_MIXING") \cup TxidsOf("CLUSTER_MERGE") \cup TxidsOf("DUST_SPENDING")

\* C29: in a run, every txid with a SCRIPT_TYPE_MIXING, CLUSTER_MERGE or
\* DUST_SPENDING finding has a CIOH finding too.
C29_MultiInputFindingsImplyCioh == MultiInputFindings \subseteq TxidsOf("CIOH")

\* the same, in runs where a decode fails always or never
CiohCoversUnderStablePlan == StablePlan => MultiInputFindings \subseteq TxidsOf("CIOH")

\* each of the three detectors fires only on a transaction of at least 2
\* resolved owned inputs, in runs where a decode fails always or never
MultiInputFindingsNeedTwoOwned ==
    StablePlan => \A t \in MultiInputFindings : Decodes(t) /\ Cardinality(OwnedVin(t)) >= 2

\* a run has ended with a finding of each of the four types for one txid
C29_AllFourOnOneTxid ==
    /\ pc = "report"
    /\ \E t \in TxidsOf("CIOH") :
          /\ t \in TxidsOf("DUST_SPENDING")
          /\ t \in TxidsOf("CLUSTER_MERGE")

\* main returns in this step, in a run that was given descriptors without
\* --wallet and without --keep-scan-wallet and has created the scan wallet
ReturnsAfterScanWallet ==
    /\ pc # "done" /\ pc' = "done"
    /\ args.wallet = "" /\ ~args.keep_scan_wallet
    /\ scan_wallet = "_detect_scan"

\* C30: when descriptors are given without --wallet and without
\* --keep-scan-wallet, every path by which main returns after creating the
\* scan wallet '_detect_scan' unloads it: the step that returns is the
\* cleanup, and the wallet is not loaded afterwards unless the node refused
\* to unload it.
C30_EveryReturnUnloadsScanWallet ==
    [][ReturnsAfterScanWallet =>
          /\ pc = "cleanup"
          /\ node_wallets' \in {node_wallets, node_wallets \ {"_detect_scan"}}]_vars

\* the return after the report does go through the cleanup
ReturnAfterReportUnloads ==
    [][(ReturnsAfterScanWallet /\ wallet_txs' # <<>>) => pc = "cleanup"]_vars

\* main has returned on the empty-history path with the scan wallet loaded
C30_ReturnedWithScanWalletLoaded ==
    /\ pc = "done"
    /\ args.wallet = "" /\ ~args.keep_scan_wallet
    /\ scan_wallet = "_detect_scan"
    /\ wallet_txs = <<>>
    /\ stdout = <<ErrorDoc>>
    /\ "_detect_scan" \in node_wallets

====
